---------------------------- MODULE Spec2Model ----------------------------
(***************************************************************************)
(* Model of the Dasharo Openness Score utility: the construction of a      *)
(* CBFSImage and a DasharoCorebootImage (openness_score/coreboot.py) and   *)
(* of a UEFIImage and its UEFIVolumes (openness_score/uefi.py).            *)
(*                                                                         *)
(* Python objects are records whose fields carry the names of the          *)
(* attributes.  A method is an operator from the object (and the output    *)
(* of the external tool it runs) to the object after the call.  The extra  *)
(* field "raised" holds the exception that left the constructor, "None"    *)
(* when there was none.  Python's None is the string "None".               *)
(***************************************************************************)
EXTENDS Integers, Sequences, FiniteSets, TLC

VARIABLES pc, cbfs, image, uefi, session

vars == <<pc, cbfs, image, uefi, session>>

None == "None"

\* The Python process that builds the objects: the files the tools have left
\* in /tmp and what the constructions so far have returned.  The
\* specifications of a single construction start from, and stay in, the
\* process that has built nothing.
NoSession == [ tools |-> << >>, tmp |-> { }, built |-> << >> ]

\* file['x'] in LIST
InList(x, list) == \E i \in DOMAIN list : list[i] = x

(***************************************************************************)
(* CBFSImage: class constants                                              *)
(***************************************************************************)
CBFS_FILETYPES ==
    << "bootblock", "cbfs header", "stage", "simple elf", "fit_payload",
       "optionrom", "bootsplash", "raw", "vsa", "mbi", "microcode",
       "intel_fit", "fsp", "mrc", "cmos_default", "cmos_layout", "spd",
       "mrc_cache", "mma", "efi", "struct", "deleted", "null", "amdfw" >>

\* OPEN_SOURCE_FILETYPES with a closed-source filetype listed in it.
OPEN_SOURCE_FILETYPES_with_efi ==
    << "bootblock", "stage", "simple elf", "fit_payload", "efi" >>

OPEN_SOURCE_FILETYPES == << "bootblock", "stage", "simple elf", "fit_payload" >>

CLOSED_SOURCE_FILETYPES ==
    << "optionrom", "vsa", "mbi", "microcode", "fsp", "mrc", "mma", "efi",
       "amdfw" >>

DATA_FILETYPES ==
    << "cbfs header", "bootsplash", "intel_fit", "cmos_default",
       "cmos_layout", "spd", "mrc_cache", "struct" >>

CLOSED_SOURCE_EXCEPTIONS ==
    << "fallback/refcode", "fallback/secure_os", "fallback/dram",
       "fallback/qcsdi", "fallback/qclib", "fallback/pmiccfg",
       "fallback/dcb", "fallback/dcb_longsys1p8", "fallback/aop",
       "fallback/uart_fw", "fallback/spi_fw", "fallback/i2c_fw",
       "fallback/cpucp", "fallback/shrm", "fallback/gsi_fw" >>

RAW_DATA_FILES ==
    << "config", "revision", "build_info", "vbt.bin", "payload_config",
       "payload_revision", "etc/grub.cfg", "logo.bmp", "rt8168-macaddress",
       "atl1e-macaddress", "wifi_sar_defaults.hex", "ecrw.hash", "pdrw.hash",
       "oem.bin", "sbom", "boot_policy_manifest.bin", "key_manifest.bin",
       "txt_bios_policy.bin", "apu/amdfw_a", "apu/amdfw_b", "me_rw.hash",
       "me_rw.version", "vboot_public_key.bin",
       "links", "bootorder", "etc/show-boot-menu", "boot-menu-message",
       "etc/boot-menu-key", "etc/boot-menu-wait", "etc/boot-fail-wait",
       "etc/extra-pci-roots", "etc/ps2-keyboard-spinup", "etc/threads",
       "etc/optionroms-checksum", "etc/pci-optionrom-exec",
       "etc/s3-resume-vga-init", "etc/screen-and-debug", "etc/sercon-port",
       "etc/advertise-serial-debug-port", "etc/floppy0", "etc/floppy1",
       "etc/usb-time-sigatt", "etc/sdcard0", "etc/sdcard1", "etc/sdcard2",
       "etc/sdcard3" >>

RAW_OPEN_SOURCE_FILES ==
    << "fallback/dsdt.aml", "vgaroms/seavgabios.bin", "pagetables", "pdpt",
       "pt", "ecrw", "pdrw", "sff8104-linux.dtb", "stm.bin", "fallback/DTB",
       "oemmanifest.bin", "smcbiosinfo.bin", "genroms/pxe.rom" >>

RAW_CLOSED_SOURCE_FILES ==
    << "doom.wad", "ecfw1.bin", "ecfw2.bin", "apu/ecfw", "ec/ecfw",
       "sch5545_ecfw.bin", "txt_bios_acm.bin", "txt_sinit_acm.bin",
       "apu/amdfw_a_body", "apu/amdfw_b_body", "smu_fw", "smu_fw2",
       "dmic-1ch-48khz-16b.bin", "dmic-2ch-48khz-16b.bin", "me_rw",
       "dmic-4ch-48khz-16b.bin", "max98357-render-2ch-48khz-24b.bin",
       "nau88l25-2ch-48khz-24b.bin", "max98927-render-2ch-48khz-24b.bin",
       "max98927-render-2ch-48khz-16b.bin", "dmic-2ch-48khz-32b.bin",
       "rt5514-capture-4ch-48khz-16b.bin", "dmic-4ch-48khz-32b.bin",
       "max98373-render-2ch-48khz-24b.bin", "dialog-2ch-48khz-24b.bin",
       "max98373-render-2ch-48khz-16b.bin", "rt5682-2ch-48khz-24b.bin",
       "rt5663-2ch-48khz-24b.bin", "ssm4567-render-2ch-48khz-24b.bin",
       "ssm4567-capture-4ch-48khz-32b.bin", "pcm_allinone_lp4_3200.bin",
       "pcm_allinone_lp4_3733.bin", "sspm.bin", "spm_firmware.bin", "AGESA",
       "cse_iom", "cse_nphy", "pse.bin", "rmu.bin", "tegra_mtc.bin", "tz.mbn",
       "cdt.mbn", "ddr.mbn", "rpm.mbn" >>

(***************************************************************************)
(* CBFSImage.__init__: the fields before the first parse                   *)
(***************************************************************************)
CBFSImage_init(region) ==
    [ region_name         |-> region.name,
      cbfs_size           |-> region.size,
      cbfs_files          |-> << >>,
      kconfig_opts        |-> << >>,
      num_files           |-> 0,
      num_opts            |-> 0,
      open_code_size      |-> 0,
      closed_code_size    |-> 0,
      data_size           |-> 0,
      empty_size          |-> 0,
      open_code_files     |-> << >>,
      closed_code_files   |-> << >>,
      data_files          |-> << >>,
      empty_files         |-> << >>,
      uncategorized_files |-> << >>,
      edk2_ipxe           |-> FALSE,
      ipxe_present        |-> FALSE,
      ipxe_rom_id         |-> None,
      lan_rom_size        |-> 0,
      raised              |-> None ]

\* One match of file_regexp in the output of 'cbfstool print': the body of
\* the loop of _parse_cbfs_files.
CBFSImage_parse_cbfs_file(c, file) ==
    [c EXCEPT !.cbfs_files = Append(@, file),
              !.num_files  = @ + 1]

RECURSIVE CBFSImage_parse_cbfs_files(_, _)
CBFSImage_parse_cbfs_files(c, listing) ==
    IF listing = << >> THEN c
    ELSE CBFSImage_parse_cbfs_files(
             CBFSImage_parse_cbfs_file(c, Head(listing)), Tail(listing))

RECURSIVE SumSizes(_)
SumSizes(files) ==
    IF files = << >> THEN 0 ELSE Head(files).size + SumSizes(Tail(files))

\* The first option of that name, as the loop of _get_kconfig_value finds it.
CBFSImage_get_kconfig_value(c, option) ==
    LET hits == { i \in 1..Len(c.kconfig_opts) :
                      c.kconfig_opts[i].option = option }
    IN  IF hits = {} THEN None
        ELSE c.kconfig_opts[CHOOSE i \in hits : \A j \in hits : i <= j].value

\* _check_for_ipxe without the test that PXE_ROM is absent.
CBFSImage_check_for_ipxe_any_rom(c) ==
    LET c1 == IF CBFSImage_get_kconfig_value(c, "EDK2_ENABLE_IPXE") = "y"
              THEN [c EXCEPT !.edk2_ipxe = TRUE, !.ipxe_present = TRUE]
              ELSE IF CBFSImage_get_kconfig_value(c, "PXE") = "y"
              THEN [c EXCEPT !.ipxe_present = TRUE]
              ELSE c
        id == CBFSImage_get_kconfig_value(c1, "PXE_ROM_ID")
    IN  [c1 EXCEPT !.ipxe_rom_id = IF id = None THEN "10ec,8168" ELSE id]

CBFSImage_check_for_ipxe(c) ==
    LET c1 == IF CBFSImage_get_kconfig_value(c, "EDK2_ENABLE_IPXE") = "y"
              THEN [c EXCEPT !.edk2_ipxe = TRUE, !.ipxe_present = TRUE]
              ELSE IF CBFSImage_get_kconfig_value(c, "PXE") = "y"
              THEN IF CBFSImage_get_kconfig_value(c, "PXE_ROM") = None
                   THEN [c EXCEPT !.ipxe_present = TRUE]
                   ELSE c
              ELSE c
        id == CBFSImage_get_kconfig_value(c1, "PXE_ROM_ID")
    IN  [c1 EXCEPT !.ipxe_rom_id = IF id = None THEN "10ec,8168" ELSE id]

\* lan is what the three tool runs of _check_for_lanrom produced:
\* [extracted |-> body_1.bin exists, returncode |-> of lzma, size |-> bytes
\* of its output].
CBFSImage_check_for_lanrom(c, lan) ==
    IF CBFSImage_get_kconfig_value(c, "EDK2_LAN_ROM_DRIVER") = None THEN c
    ELSE IF ~lan.extracted THEN c
    ELSE IF lan.returncode = 0 THEN [c EXCEPT !.lan_rom_size = lan.size]
    ELSE c

\* The lines of the config file that kconfig_pregexp matches, in file order.
RECURSIVE KconfigMatches(_)
KconfigMatches(lines) ==
    IF lines = << >> THEN << >>
    ELSE IF Head(lines).assigned
         THEN << [option |-> Head(lines).option, value |-> Head(lines).value] >>
              \o KconfigMatches(Tail(lines))
         ELSE KconfigMatches(Tail(lines))

\* config is what 'cbfstool extract -n config' left behind: [found |-> the
\* file exists, lines |-> its lines].  open() of a missing file raises
\* FileNotFoundError and the method returns.
CBFSImage_parse_cb_config(c, config, lan) ==
    IF ~config.found THEN c
    ELSE LET opts == KconfigMatches(config.lines)
             c1   == [c EXCEPT !.kconfig_opts = opts, !.num_opts = Len(opts)]
         IN  CBFSImage_check_for_lanrom(CBFSImage_check_for_ipxe(c1), lan)

\* _classify_file testing for the iPXE ROM before the three name lists.
CBFSImage_classify_file_ipxe_first(c, file) ==
    IF InList(file.filetype, OPEN_SOURCE_FILETYPES) THEN
        IF ~InList(file.filename, CLOSED_SOURCE_EXCEPTIONS)
        THEN [c EXCEPT !.open_code_files = Append(@, file)]
        ELSE [c EXCEPT !.closed_code_files = Append(@, file)]
    ELSE IF InList(file.filetype, CLOSED_SOURCE_FILETYPES) THEN
        [c EXCEPT !.closed_code_files = Append(@, file)]
    ELSE IF InList(file.filetype, DATA_FILETYPES) THEN
        [c EXCEPT !.data_files = Append(@, file)]
    ELSE IF file.filetype = "null" THEN
        [c EXCEPT !.empty_files = Append(@, file)]
    ELSE IF file.filetype = "raw" THEN
        IF c.ipxe_present /\ ~c.edk2_ipxe THEN
            IF \/ file.filename = "pci" \o c.ipxe_rom_id \o ".rom"
               \/ file.filename = "pci" \o c.ipxe_rom_id \o ".rom.lzma"
            THEN [c EXCEPT !.open_code_files = Append(@, file)]
            ELSE c
        ELSE IF InList(file.filename, RAW_DATA_FILES) THEN
            [c EXCEPT !.data_files = Append(@, file)]
        ELSE IF InList(file.filename, RAW_OPEN_SOURCE_FILES) THEN
            [c EXCEPT !.open_code_files = Append(@, file)]
        ELSE IF InList(file.filename, RAW_CLOSED_SOURCE_FILES) THEN
            [c EXCEPT !.closed_code_files = Append(@, file)]
        ELSE [c EXCEPT !.uncategorized_files = Append(@, file)]
    ELSE [c EXCEPT !.uncategorized_files = Append(@, file)]

CBFSImage_classify_file(c, file) ==
    IF InList(file.filetype, OPEN_SOURCE_FILETYPES) THEN
        IF ~InList(file.filename, CLOSED_SOURCE_EXCEPTIONS)
        THEN [c EXCEPT !.open_code_files = Append(@, file)]
        ELSE [c EXCEPT !.closed_code_files = Append(@, file)]
    ELSE IF InList(file.filetype, CLOSED_SOURCE_FILETYPES) THEN
        [c EXCEPT !.closed_code_files = Append(@, file)]
    ELSE IF InList(file.filetype, DATA_FILETYPES) THEN
        [c EXCEPT !.data_files = Append(@, file)]
    ELSE IF file.filetype = "null" THEN
        [c EXCEPT !.empty_files = Append(@, file)]
    ELSE IF file.filetype = "raw" THEN
        IF InList(file.filename, RAW_DATA_FILES) THEN
            [c EXCEPT !.data_files = Append(@, file)]
        ELSE IF InList(file.filename, RAW_OPEN_SOURCE_FILES) THEN
            [c EXCEPT !.open_code_files = Append(@, file)]
        ELSE IF InList(file.filename, RAW_CLOSED_SOURCE_FILES) THEN
            [c EXCEPT !.closed_code_files = Append(@, file)]
        ELSE IF c.ipxe_present /\ ~c.edk2_ipxe THEN
            IF \/ file.filename = "pci" \o c.ipxe_rom_id \o ".rom"
               \/ file.filename = "pci" \o c.ipxe_rom_id \o ".rom.lzma"
            THEN [c EXCEPT !.open_code_files = Append(@, file)]
            ELSE c
        ELSE [c EXCEPT !.uncategorized_files = Append(@, file)]
    ELSE [c EXCEPT !.uncategorized_files = Append(@, file)]

\* for i in range(self.num_files): self._classify_file(self.cbfs_files[i])
RECURSIVE CBFSImage_classify_files(_, _)
CBFSImage_classify_files(c, i) ==
    IF i > c.num_files THEN c
    ELSE CBFSImage_classify_files(CBFSImage_classify_file(c, c.cbfs_files[i]),
                                  i + 1)

\* _normalize_sizes taking the metadata from the totals as they were before
\* the truncated size was added.
CBFSImage_normalize_sizes_stale_sum(c) ==
    IF c.num_files = 0 THEN [c EXCEPT !.raised = "KeyError"]
    ELSE
    LET last_file_end  == c.cbfs_files[c.num_files].size
                          + c.cbfs_files[c.num_files].offset
        truncated_size == c.cbfs_size - last_file_end
        c1 == IF truncated_size > 64
              THEN [c EXCEPT !.empty_size = @ + truncated_size]
              ELSE c
        metadata_size == c.cbfs_size - (c.open_code_size + c.empty_size
                                        + c.closed_code_size + c.data_size)
    IN  [c1 EXCEPT !.data_size = @ + metadata_size]

\* _normalize_sizes comparing the truncated size with >= 64.
CBFSImage_normalize_sizes_ge_64(c) ==
    IF c.num_files = 0 THEN [c EXCEPT !.raised = "KeyError"]
    ELSE
    LET last_file_end  == c.cbfs_files[c.num_files].size
                          + c.cbfs_files[c.num_files].offset
        truncated_size == c.cbfs_size - last_file_end
        c1 == IF truncated_size >= 64
              THEN [c EXCEPT !.empty_size = @ + truncated_size]
              ELSE c
        metadata_size == c1.cbfs_size - (c1.open_code_size + c1.empty_size
                                         + c1.closed_code_size + c1.data_size)
    IN  [c1 EXCEPT !.data_size = @ + metadata_size]

\* _normalize_sizes taking the offset of the last file for its end.
CBFSImage_normalize_sizes_no_size(c) ==
    IF c.num_files = 0 THEN [c EXCEPT !.raised = "KeyError"]
    ELSE
    LET last_file_end  == c.cbfs_files[c.num_files].offset
        truncated_size == c.cbfs_size - last_file_end
        c1 == IF truncated_size > 64
              THEN [c EXCEPT !.empty_size = @ + truncated_size]
              ELSE c
        metadata_size == c1.cbfs_size - (c1.open_code_size + c1.empty_size
                                         + c1.closed_code_size + c1.data_size)
    IN  [c1 EXCEPT !.data_size = @ + metadata_size]

\* cbfs_files is a dict: with no file, cbfs_files[-1] raises KeyError before
\* any total is touched.
CBFSImage_normalize_sizes(c) ==
    IF c.num_files = 0 THEN [c EXCEPT !.raised = "KeyError"]
    ELSE
    LET last_file_end  == c.cbfs_files[c.num_files].size
                          + c.cbfs_files[c.num_files].offset
        truncated_size == c.cbfs_size - last_file_end
        c1 == IF truncated_size > 64
              THEN [c EXCEPT !.empty_size = @ + truncated_size]
              ELSE c
        metadata_size == c1.cbfs_size - (c1.open_code_size + c1.empty_size
                                         + c1.closed_code_size + c1.data_size)
    IN  [c1 EXCEPT !.data_size = @ + metadata_size]

CBFSImage_calculate_metrics(c) ==
    LET c1 == CBFSImage_classify_files(c, 1)
        c2 == [c1 EXCEPT
                 !.open_code_size   = SumSizes(c1.open_code_files),
                 !.closed_code_size = SumSizes(c1.closed_code_files)
                                      + SumSizes(c1.uncategorized_files),
                 !.data_size        = SumSizes(c1.data_files),
                 !.empty_size       = SumSizes(c1.empty_files)]
        c3 == IF c2.lan_rom_size # 0
              THEN [c2 EXCEPT !.open_code_size   = @ - c2.lan_rom_size,
                              !.closed_code_size = @ + c2.lan_rom_size]
              ELSE c2
    IN  CBFSImage_normalize_sizes(c3)

\* CBFSImage(image_path, region): the three calls of __init__ on the outputs
\* of the tools.
CBFSImage(region, listing, config, lan) ==
    CBFSImage_calculate_metrics(
        CBFSImage_parse_cb_config(
            CBFSImage_parse_cbfs_files(CBFSImage_init(region), listing),
            config, lan))


(***************************************************************************)
(* DasharoCorebootImage                                                    *)
(***************************************************************************)
FMAP_DATA_REGIONS ==
    << "SI_DESC", "RECOVERY_MRC_CACHE", "RW_MRC_CACHE", "RW_VPD",
       "SMMSTORE", "SHARED_DATA", "VBLOCK_DEV", "RW_NVRAM",
       "CONSOLE", "RW_FWID_A", "RW_FWID_B", "VBLOCK_A", "RO_VPD",
       "VBLOCK_B", "HSPHY_FW", "RW_ELOG", "FMAP", "RO_FRID",
       "RO_FRID_PAD", "SPD_CACHE", "FPF_STATUS", "RO_LIMITS_CFG",
       "RW_DDR_TRAINING", "GBB" >>

CODE_REGIONS == << "BOOTBLOCK" >>

BLOB_REGIONS ==
    << "RW_VBIOS_CACHE", "ME_RW_A", "ME_RW_B", "IFWI", "SI_ME", "SIGN_CSE" >>

SKIP_REGIONS ==
    << "RW_MISC", "UNIFIED_MRC_CACHE", "RW_SHARED", "SI_ALL",
       "RW_SECTION_A", "RW_SECTION_B", "WP_RO", "RO_SECTION" >>

EMPTY_REGIONS == << "UNUSED" >>

\* DasharoCorebootImage.__init__: the fields before the parse; image_size is
\* os.path.getsize(image_path).
\* printed holds what the methods of the object print, in order: the format
\* string and its arguments.
DasharoCorebootImage_init(image_size) ==
    [ image_size            |-> image_size,
      fmap_regions          |-> << >>,
      cbfs_images           |-> << >>,
      num_regions           |-> 0,
      num_cbfses            |-> 0,
      open_code_size        |-> 0,
      closed_code_size      |-> 0,
      data_size             |-> 0,
      empty_size            |-> 0,
      open_code_regions     |-> << >>,
      closed_code_regions   |-> << >>,
      data_regions          |-> << >>,
      empty_regions         |-> << >>,
      uncategorized_regions |-> << >>,
      printed               |-> << >>,
      raised                |-> None ]

\* The image of the specifications that build no DasharoCorebootImage.
NoImage == DasharoCorebootImage_init(0)

DasharoCorebootImage_region_is_cbfs(region) == region.attributes = "CBFS"

\* One match of region_regexp: the body of the loop of
\* _parse_cb_fmap_layout.  tool is what cbfstool gives for that region:
\* [listing, config, lan].  An exception of CBFSImage() leaves the
\* constructor with the region stored and num_regions not yet counted up.
DasharoCorebootImage_parse_region(img, region, tool) ==
    LET img1 == [img EXCEPT !.fmap_regions = Append(@, region)]
    IN  IF DasharoCorebootImage_region_is_cbfs(region)
        THEN LET c == CBFSImage(region, tool.listing, tool.config, tool.lan)
             IN  IF c.raised # None
                 THEN [img1 EXCEPT !.raised = c.raised]
                 ELSE [img1 EXCEPT !.cbfs_images = Append(@, c),
                                   !.num_cbfses  = @ + 1,
                                   !.num_regions = @ + 1]
        ELSE [img1 EXCEPT !.num_regions = @ + 1]

\* _classify_region with the read-only test in front of the name lists.
DasharoCorebootImage_classify_region_read_only_first(img, region) ==
    IF DasharoCorebootImage_region_is_cbfs(region) THEN img
    ELSE IF InList(region.name, SKIP_REGIONS) THEN img
    ELSE IF region.attributes = "read-only" THEN
        [img EXCEPT !.printed = Append(@,
            [ text |-> "WARNING: Skipped %s region, suspected to be a container",
              args |-> << region.name >> ])]
    ELSE IF InList(region.name, CODE_REGIONS) THEN
        [img EXCEPT !.open_code_regions = Append(@, region)]
    ELSE IF InList(region.name, BLOB_REGIONS) THEN
        [img EXCEPT !.closed_code_regions = Append(@, region)]
    ELSE IF InList(region.name, EMPTY_REGIONS) THEN
        [img EXCEPT !.empty_regions = Append(@, region)]
    ELSE IF InList(region.name, FMAP_DATA_REGIONS) THEN
        [img EXCEPT !.data_regions = Append(@, region)]
    ELSE [img EXCEPT !.uncategorized_regions = Append(@, region)]

DasharoCorebootImage_classify_region(img, region) ==
    IF DasharoCorebootImage_region_is_cbfs(region) THEN img
    ELSE IF InList(region.name, SKIP_REGIONS) THEN img
    ELSE IF InList(region.name, CODE_REGIONS) THEN
        [img EXCEPT !.open_code_regions = Append(@, region)]
    ELSE IF InList(region.name, BLOB_REGIONS) THEN
        [img EXCEPT !.closed_code_regions = Append(@, region)]
    ELSE IF InList(region.name, EMPTY_REGIONS) THEN
        [img EXCEPT !.empty_regions = Append(@, region)]
    ELSE IF InList(region.name, FMAP_DATA_REGIONS) THEN
        [img EXCEPT !.data_regions = Append(@, region)]
    ELSE IF region.attributes = "read-only" THEN
        [img EXCEPT !.printed = Append(@,
            [ text |-> "WARNING: Skipped %s region, suspected to be a container",
              args |-> << region.name >> ])]
    ELSE [img EXCEPT !.uncategorized_regions = Append(@, region)]

\* for i in range(self.num_regions): self._classify_region(...)
RECURSIVE DasharoCorebootImage_classify_regions(_, _)
DasharoCorebootImage_classify_regions(img, i) ==
    IF i > img.num_regions THEN img
    ELSE DasharoCorebootImage_classify_regions(
             DasharoCorebootImage_classify_region(img, img.fmap_regions[i]),
             i + 1)

\* The totals of one CBFS added, the loop left after its first pass.
DasharoCorebootImage_add_cbfs_totals_once(img, i) ==
    IF i > img.num_cbfses THEN img
    ELSE [img EXCEPT
            !.open_code_size   = @ + img.cbfs_images[i].open_code_size,
            !.closed_code_size = @ + img.cbfs_images[i].closed_code_size,
            !.data_size        = @ + img.cbfs_images[i].data_size,
            !.empty_size       = @ + img.cbfs_images[i].empty_size]

\* for i in range(self.num_cbfses): add the four totals of cbfs_images[i]
RECURSIVE DasharoCorebootImage_add_cbfs_totals(_, _)
DasharoCorebootImage_add_cbfs_totals(img, i) ==
    IF i > img.num_cbfses THEN img
    ELSE DasharoCorebootImage_add_cbfs_totals(
             [img EXCEPT
                !.open_code_size   = @ + img.cbfs_images[i].open_code_size,
                !.closed_code_size = @ + img.cbfs_images[i].closed_code_size,
                !.data_size        = @ + img.cbfs_images[i].data_size,
                !.empty_size       = @ + img.cbfs_images[i].empty_size],
             i + 1)

\* The final check of _normalize_sizes made to repair the totals: the bytes
\* that are missing go to closed_code_size.
DasharoCorebootImage_final_check_repairs(img) ==
    LET full_size == img.open_code_size + img.empty_size
                     + img.closed_code_size + img.data_size
    IN  IF full_size # img.image_size
        THEN [img EXCEPT !.closed_code_size = @ + (img.image_size - full_size)]
        ELSE img

\* The final check of _normalize_sizes: a difference is printed and nothing
\* else.
DasharoCorebootImage_final_check(img) ==
    LET full_size == img.open_code_size + img.empty_size
                     + img.closed_code_size + img.data_size
    IN  IF full_size # img.image_size
        THEN [img EXCEPT !.printed = Append(@,
                 [ text |-> "WARNING: Something went wrong. The component sizes do not sum up to the image size. %d != %d",
                   args |-> << full_size, img.image_size >> ])]
        ELSE img

\* _normalize_sizes without the bytes in front of the first region.
DasharoCorebootImage_normalize_sizes_no_gap(img) ==
    IF img.fmap_regions = << >> THEN [img EXCEPT !.raised = "KeyError"]
    ELSE DasharoCorebootImage_final_check(img)

\* fmap_regions is a dict: with no region, fmap_regions[0] raises KeyError.
DasharoCorebootImage_normalize_sizes(img) ==
    IF img.fmap_regions = << >> THEN [img EXCEPT !.raised = "KeyError"]
    ELSE DasharoCorebootImage_final_check(
             IF img.fmap_regions[1].offset # 0
             THEN [img EXCEPT
                     !.closed_code_size = @ + img.fmap_regions[1].offset]
             ELSE img)

DasharoCorebootImage_calculate_metrics(img) ==
    LET i1 == DasharoCorebootImage_classify_regions(img, 1)
        i2 == [i1 EXCEPT
                 !.open_code_size   = @ + SumSizes(i1.open_code_regions),
                 !.closed_code_size = @ + SumSizes(i1.closed_code_regions)
                                        + SumSizes(i1.uncategorized_regions),
                 !.data_size        = @ + SumSizes(i1.data_regions),
                 !.empty_size       = @ + SumSizes(i1.empty_regions)]
    IN  DasharoCorebootImage_normalize_sizes(
            DasharoCorebootImage_add_cbfs_totals(i2, 1))


(***************************************************************************)
(* Text of the UEFIExtract report: the operations of Python's str and int  *)
(* that uefi.py applies to the columns of a report line                    *)
(***************************************************************************)
\* s[i:] of a string, i counted from 1.
StrFrom(s, i) == SubSeq(s, i, Len(s))

\* needle in s
StrIn(needle, s) ==
    \E i \in 1..(Len(s) - Len(needle) + 1) :
        SubSeq(s, i, i + Len(needle) - 1) = needle

\* s.lstrip(ch)
RECURSIVE StrLStrip(_, _)
StrLStrip(s, ch) ==
    IF Len(s) > 0 /\ SubSeq(s, 1, 1) = ch
    THEN StrLStrip(StrFrom(s, 2), ch)
    ELSE s

\* s.rstrip(ch)
RECURSIVE StrRStrip(_, _)
StrRStrip(s, ch) ==
    IF Len(s) > 0 /\ SubSeq(s, Len(s), Len(s)) = ch
    THEN StrRStrip(SubSeq(s, 1, Len(s) - 1), ch)
    ELSE s

\* s.strip(), for names whose only whitespace is the blank
StrStrip(s) == StrRStrip(StrLStrip(s, " "), " ")

HexDigits == "0123456789ABCDEF"

HexDigitValue(ch) ==
    CHOOSE d \in 0..15 : SubSeq(HexDigits, d + 1, d + 1) = ch

\* int(s, 16) of the digits report_regexp lets through ([A-F0-9]+)
RECURSIVE Int16(_)
Int16(s) ==
    IF Len(s) = 0 THEN 0
    ELSE 16 * Int16(SubSeq(s, 1, Len(s) - 1))
         + HexDigitValue(SubSeq(s, Len(s), Len(s)))

(***************************************************************************)
(* UEFIVolume                                                              *)
(***************************************************************************)
NVAR_VOLUME_THRESHOLD == 90

\* The entries dictionary self.uefi_entries is shared with the UEFIImage and
\* is passed along as the parameter entries; its key k is index k + 1 here.
UEFIVolume_init(uefi_entries, entry_idx) ==
    [ volume_idx        |-> entry_idx,
      volume_base       |-> uefi_entries[entry_idx].base,
      volume_size       |-> uefi_entries[entry_idx].size,
      volume_end        |-> uefi_entries[entry_idx].base
                            + uefi_entries[entry_idx].size,
      volume_type       |-> uefi_entries[entry_idx].subtype,
      volume_guid       |-> StrStrip(StrLStrip(uefi_entries[entry_idx].name,
                                               "-")),
      volume_entries    |-> << >>,
      nested_volumes    |-> << >>,
      open_code_size    |-> 0,
      closed_code_size  |-> 0,
      data_size         |-> 0,
      empty_size        |-> 0,
      open_code_files   |-> << >>,
      closed_code_files |-> << >>,
      data_files        |-> << >>,
      empty_files       |-> << >>,
      raised            |-> None ]

UEFIVolume_entry_is_region(entry) == entry.type = "Region"

UEFIVolume_entry_is_self_volume(v, entry) ==
    /\ entry.type = "Volume"
    /\ entry.base = v.volume_base
    /\ entry.size = v.volume_size

\* _entry_is_inside_volume accepting an entry without base in an empty
\* volume as well.
UEFIVolume_entry_is_inside_volume_any_na(v, entry) ==
    IF entry.base # -1
    THEN /\ ~UEFIVolume_entry_is_region(entry)
         /\ ~UEFIVolume_entry_is_self_volume(v, entry)
         /\ entry.base >= v.volume_base
         /\ entry.base + entry.size <= v.volume_end
    ELSE TRUE

UEFIVolume_entry_is_inside_volume(v, entry) ==
    IF entry.base # -1
    THEN IF UEFIVolume_entry_is_region(entry) THEN FALSE
         ELSE IF UEFIVolume_entry_is_self_volume(v, entry) THEN FALSE
         ELSE IF entry.base < v.volume_base \/ entry.base >= v.volume_end
              THEN FALSE
         ELSE IF /\ entry.base >= v.volume_base
                 /\ entry.base + entry.size <= v.volume_end
              THEN TRUE
         ELSE FALSE
    ELSE Len(v.volume_entries) > 0

\* _is_end_of_volume without the test of base + size.
UEFIVolume_is_end_of_volume_base_only(v, entry) ==
    entry.base # -1 /\ entry.base > v.volume_end

UEFIVolume_is_end_of_volume(v, entry) ==
    IF entry.base = -1 THEN FALSE
    ELSE IF entry.base > v.volume_end THEN TRUE
    ELSE IF entry.base + entry.size > v.volume_end THEN TRUE
    ELSE FALSE

UEFIVolume_entry_is_nested_volume(v, entry) ==
    IF entry.type = "Volume" /\ entry.size # -1 /\ entry.subtype = "FFSv2"
    THEN IF entry.base < v.volume_base \/ entry.base >= v.volume_end
         THEN FALSE
         ELSE IF /\ entry.base >= v.volume_base
                 /\ entry.base + entry.size <= v.volume_end
              THEN TRUE
         ELSE FALSE
    ELSE FALSE

UEFIVolume_is_entry_empty_padding(entry) ==
    /\ entry.base # -1 /\ entry.size # 0
    /\ entry.type = "Padding"
    /\ entry.subtype = "Empty (0xFF)" \/ entry.subtype = "Empty (0x00)"

UEFIVolume_is_entry_non_empty_padding(entry) ==
    /\ entry.base # -1 /\ entry.size # 0
    /\ entry.type = "Padding"
    /\ entry.subtype = "Non-empty"

UEFIVolume_is_entry_free_space(entry) ==
    /\ entry.base # -1 /\ entry.size # 0
    /\ entry.type = "Free space"

UEFIVolume_is_entry_empty_pad_file(entry) ==
    /\ entry.base # -1 /\ entry.size # 0
    /\ entry.type = "File"
    /\ entry.subtype = "Pad"
    /\ StrIn("Pad-file", entry.name)

UEFIVolume_is_entry_non_empty_pad_file(entry) ==
    /\ entry.base # -1 /\ entry.size # 0
    /\ entry.type = "File"
    /\ entry.subtype = "Pad"
    /\ StrIn("Non-empty pad-file", entry.name)

\* _classify_entries finding 'Pad-file' in a name whatever the case of its
\* letters.
UEFIVolume_classify_entry_any_case(entry) ==
    IF UEFIVolume_is_entry_empty_padding(entry) THEN "empty_files"
    ELSE IF UEFIVolume_is_entry_non_empty_padding(entry) THEN "data_files"
    ELSE IF UEFIVolume_is_entry_free_space(entry) THEN "empty_files"
    ELSE IF \/ UEFIVolume_is_entry_empty_pad_file(entry)
            \/ UEFIVolume_is_entry_non_empty_pad_file(entry)
         THEN "empty_files"
    ELSE None

\* The list a pass of the loop of _classify_entries appends the entry to.
UEFIVolume_classify_entry(entry) ==
    IF UEFIVolume_is_entry_empty_padding(entry) THEN "empty_files"
    ELSE IF UEFIVolume_is_entry_non_empty_padding(entry) THEN "data_files"
    ELSE IF UEFIVolume_is_entry_free_space(entry) THEN "empty_files"
    ELSE IF UEFIVolume_is_entry_empty_pad_file(entry) THEN "empty_files"
    ELSE IF UEFIVolume_is_entry_non_empty_pad_file(entry) THEN "data_files"
    ELSE None

\* _classify_entries: each list gets, in the order of volume_entries, the
\* entries the passes of the loop append to it.
UEFIVolume_classify_entries(v) ==
    [v EXCEPT
       !.empty_files =
           @ \o SelectSeq(v.volume_entries,
                          LAMBDA entry :
                              UEFIVolume_classify_entry(entry) = "empty_files"),
       !.data_files =
           @ \o SelectSeq(v.volume_entries,
                          LAMBDA entry :
                              UEFIVolume_classify_entry(entry) = "data_files")]

\* sum(list(f['size'] for f in files))
RECURSIVE UEFIVolume_sum_sizes(_)
UEFIVolume_sum_sizes(files) ==
    IF files = << >> THEN 0
    ELSE Head(files).size + UEFIVolume_sum_sizes(Tail(files))

\* The loop of _is_nvar_store_volume: the number of indices of
\* volume_entries with an entry of type 'NVAR entry'.
UEFIVolume_nvar_count(volume_entries) ==
    Cardinality({ i \in DOMAIN volume_entries :
                      volume_entries[i].type = "NVAR entry" })

\* _is_nvar_store_volume with a ratio that has to exceed the threshold.
UEFIVolume_is_nvar_store_volume_above(v) ==
    UEFIVolume_nvar_count(v.volume_entries) * 100
        > NVAR_VOLUME_THRESHOLD * Len(v.volume_entries)

\* (nvar_count * 100) / len(volume_entries) >= NVAR_VOLUME_THRESHOLD, for a
\* volume with entries: the quotient of the true division is compared with
\* the threshold, which is the comparison of the products below.  The
\* division by zero of a volume without entries is raised by the caller,
\* UEFIVolume_normalize_sizes.
UEFIVolume_is_nvar_store_volume(v) ==
    UEFIVolume_nvar_count(v.volume_entries) * 100
        >= NVAR_VOLUME_THRESHOLD * Len(v.volume_entries)

\* The loop of _normalize_sizes over nested_volumes, from volume i on.
RECURSIVE UEFIVolume_add_nested_totals(_, _)
UEFIVolume_add_nested_totals(v, i) ==
    IF i > Len(v.nested_volumes) THEN v
    ELSE UEFIVolume_add_nested_totals(
             [v EXCEPT
                !.closed_code_size = @ + v.nested_volumes[i].closed_code_size,
                !.data_size        = @ + v.nested_volumes[i].data_size,
                !.empty_size       = @ + v.nested_volumes[i].empty_size],
             i + 1)

\* _normalize_sizes with the classified size summed before the totals of the
\* nested volumes are added.
UEFIVolume_normalize_sizes_before_nested(v) ==
    LET classified_files_size ==
            v.empty_size + v.closed_code_size + v.data_size
        v1 == UEFIVolume_add_nested_totals(v, 1)
    IN  IF Len(v1.volume_entries) = 0
        THEN [v1 EXCEPT !.raised = "ZeroDivisionError"]
        ELSE IF UEFIVolume_is_nvar_store_volume(v1)
        THEN [v1 EXCEPT !.data_size = @ + (v1.volume_size
                                           - classified_files_size)]
        ELSE [v1 EXCEPT !.closed_code_size = @ + (v1.volume_size
                                                  - classified_files_size)]

\* _normalize_sizes with the rest of a volume that is no variable store
\* counted as open-source code.
UEFIVolume_normalize_sizes_to_open(v) ==
    LET v1 == UEFIVolume_add_nested_totals(v, 1)
        classified_files_size ==
            v1.empty_size + v1.closed_code_size + v1.data_size
    IN  IF Len(v1.volume_entries) = 0
        THEN [v1 EXCEPT !.raised = "ZeroDivisionError"]
        ELSE IF UEFIVolume_is_nvar_store_volume(v1)
        THEN [v1 EXCEPT !.data_size = @ + (v1.volume_size
                                           - classified_files_size)]
        ELSE [v1 EXCEPT !.open_code_size = @ + (v1.volume_size
                                                - classified_files_size)]

UEFIVolume_normalize_sizes(v) ==
    LET v1 == UEFIVolume_add_nested_totals(v, 1)
        classified_files_size ==
            v1.empty_size + v1.closed_code_size + v1.data_size
    IN  IF Len(v1.volume_entries) = 0
        THEN [v1 EXCEPT !.raised = "ZeroDivisionError"]
        ELSE IF UEFIVolume_is_nvar_store_volume(v1)
        THEN [v1 EXCEPT !.data_size = @ + (v1.volume_size
                                           - classified_files_size)]
        ELSE [v1 EXCEPT !.closed_code_size = @ + (v1.volume_size
                                                  - classified_files_size)]

UEFIVolume_calculate_metrics(v) ==
    LET v1 == UEFIVolume_classify_entries(v)
        v2 == [v1 EXCEPT
                 !.closed_code_size =
                     @ + UEFIVolume_sum_sizes(v1.closed_code_files),
                 !.data_size  = @ + UEFIVolume_sum_sizes(v1.data_files),
                 !.empty_size = @ + UEFIVolume_sum_sizes(v1.empty_files)]
    IN  UEFIVolume_normalize_sizes(v2)

RECURSIVE UEFIVolume(_, _)

\* One pass of the loop of _parse_volume_files, for index i.  loop.volume is
\* the volume and loop.broke tells that an earlier pass has left the loop,
\* by its break or by the exception of a nested volume.  The statement
\* 'i += len(nested_volume.volume_entries)' changes the loop variable for
\* the rest of the pass only, which is the 'continue' that follows it: the
\* for statement takes the next index of its range whatever i was set to.
UEFIVolume_parse_volume_file(loop, uefi_entries, i) ==
    IF loop.broke THEN loop
    ELSE
      LET v      == loop.volume
          entry  == uefi_entries[i]
          inside == UEFIVolume_entry_is_inside_volume(v, entry)
          v1     == IF inside
                    THEN [v EXCEPT !.volume_entries = Append(@, entry)]
                    ELSE v
      IN  IF inside /\ UEFIVolume_entry_is_nested_volume(v, entry)
          THEN LET nested_volume == UEFIVolume(uefi_entries, i)
               IN  IF nested_volume.raised # None
                   THEN [ volume |-> [v EXCEPT !.raised = nested_volume.raised],
                          broke  |-> TRUE ]
                   ELSE [ volume |-> [v EXCEPT !.nested_volumes =
                                          Append(@, nested_volume)],
                          broke  |-> FALSE ]
          ELSE IF UEFIVolume_entry_is_self_volume(v1, entry)
          THEN [ volume |-> v1, broke |-> FALSE ]
          ELSE [ volume |-> v1,
                 broke  |-> UEFIVolume_is_end_of_volume(v1, entry) ]

\* _parse_volume_files: the passes first..last of its loop, in order, the
\* range split in halves.
RECURSIVE UEFIVolume_parse_volume_files(_, _, _, _)
UEFIVolume_parse_volume_files(loop, uefi_entries, first, last) ==
    IF first > last THEN loop
    ELSE IF first = last
    THEN UEFIVolume_parse_volume_file(loop, uefi_entries, first)
    ELSE LET mid == (first + last) \div 2
             left == UEFIVolume_parse_volume_files(loop, uefi_entries,
                                                   first, mid)
         IN  IF left.broke THEN left
             ELSE UEFIVolume_parse_volume_files(left, uefi_entries,
                                                mid + 1, last)

\* UEFIVolume(uefi_entries, entry_idx): __init__
UEFIVolume(uefi_entries, entry_idx) ==
    LET v == UEFIVolume_parse_volume_files(
                 [ volume |-> UEFIVolume_init(uefi_entries, entry_idx),
                   broke  |-> FALSE ],
                 uefi_entries, entry_idx + 1, Len(uefi_entries)).volume
    IN  IF v.raised # None THEN v ELSE UEFIVolume_calculate_metrics(v)

(***************************************************************************)
(* UEFIImage                                                               *)
(***************************************************************************)
\* Format: Type, Subtype, Name
EMPTY_REGION_PADDING ==
    << << "Padding", "Empty (0xFF)", "- Padding" >>,
       << "Padding", "Empty (0x00)", "- Padding" >> >>

EMPTY_BIOS_PADDING ==
    << << "Padding", "Empty (0xFF)", "-- Padding" >>,
       << "Padding", "Empty (0x00)", "-- Padding" >> >>

NON_EMPTY_REGION_PADDING ==
    << << "Padding", "Non-empty", "- Padding" >> >>

NON_EMPTY_BIOS_PADDING ==
    << << "Padding", "Non-empty", "-- Padding" >> >>

CLOSED_SOURCE_REGIONS ==
    << "ME", "DevExp1", "DevExp2", "Microcode", "EC", "IE", "PTT",
       "Reserved1", "Reserved2" >>

DATA_REGIONS == << "Descriptor", "GbE", "PDR", "10GbE1", "10GbE2" >>

\* __init__ with the lists kept on the class: an instance starts from the
\* entries the instance before it collected.
UEFIImage_init_class_lists(image_size) ==
    LET before == IF session.built = << >> THEN << >>
                  ELSE session.built[Len(session.built)].uefi_entries
    IN  [ image_size          |-> image_size,
          uefi_entries        |-> before,
          volumes             |-> << >>,
          regions             |-> << >>,
          bios_region         |-> << >>,
          num_regions         |-> 0,
          num_volumes         |-> 0,
          num_entries         |-> Len(before),
          open_code_size      |-> 0,
          closed_code_size    |-> 0,
          data_size           |-> 0,
          empty_size          |-> 0,
          closed_code_regions |-> << >>,
          data_regions        |-> << >>,
          empty_spaces        |-> << >>,
          raised              |-> None ]

\* bios_region is the empty dictionary until a BIOS region is parsed.
UEFIImage_init(image_size) ==
    [ image_size          |-> image_size,
      uefi_entries        |-> << >>,
      volumes             |-> << >>,
      regions             |-> << >>,
      bios_region         |-> << >>,
      num_regions         |-> 0,
      num_volumes         |-> 0,
      num_entries         |-> 0,
      open_code_size      |-> 0,
      closed_code_size    |-> 0,
      data_size           |-> 0,
      empty_size          |-> 0,
      closed_code_regions |-> << >>,
      data_regions        |-> << >>,
      empty_spaces        |-> << >>,
      raised              |-> None ]

NoUefi == UEFIImage_init(0)

UEFIImage_entry_is_volume(entry) ==
    entry.type = "Volume" /\ entry.size # -1

UEFIImage_entry_is_region(entry) == entry.type = "Region"

\* One pass of the loop of _parse_uefi_image; match holds the groups of
\* report_regexp as the report has them, as text.
UEFIImage_parse_match(u, match) ==
    LET size  == Int16(match.size)
        entry == [ type    |-> match.type,
                   subtype |-> match.subtype,
                   base    |-> IF match.base = "N/A" THEN -1
                               ELSE Int16(match.base),
                   size    |-> size,
                   name    |-> match.name ]
        isreg == UEFIImage_entry_is_region(entry)
    IN  [u EXCEPT
           !.image_size   = IF match.type = "Image" /\ size # u.image_size
                            THEN size ELSE @,
           !.uefi_entries = Append(@, entry),
           !.regions      = IF isreg THEN Append(@, entry) ELSE @,
           !.num_regions  = IF isreg THEN @ + 1 ELSE @,
           !.bios_region  = IF isreg /\ match.subtype = "BIOS"
                            THEN entry ELSE @,
           !.num_entries  = @ + 1]

\* volumes[i] for some i < num_volumes holds the entry.
UEFIImage_is_entry_nested_volume(u, entry) ==
    \E i \in 1..u.num_volumes :
        /\ entry.base >= u.volumes[i].volume_base
        /\ entry.base + entry.size
               <= u.volumes[i].volume_base + u.volumes[i].volume_size

\* _is_entry_inside_bios_region true for every entry with a base that is no
\* region.
UEFIImage_is_entry_inside_bios_region_anywhere(u, entry) ==
    entry.base # -1 /\ ~UEFIImage_entry_is_region(entry)

\* _is_entry_inside_bios_region once bios_region['base'] has been read; the
\* KeyError of an image without BIOS region is raised by the caller,
\* UEFIImage_classify_entry.
UEFIImage_is_entry_inside_bios_region(u, entry) ==
    LET bios_start == u.bios_region.base
        bios_end   == u.bios_region.base + u.bios_region.size
    IN  IF entry.base = -1 THEN FALSE
        ELSE IF UEFIImage_entry_is_region(entry) THEN FALSE
        ELSE IF entry.base < bios_start \/ entry.base >= bios_end THEN FALSE
        ELSE IF entry.base >= bios_start /\ entry.base + entry.size <= bios_end
             THEN TRUE
        ELSE FALSE

\* One pass of the first loop of _classify_entries.
UEFIImage_classify_region(u, region) ==
    IF InList(region.subtype, CLOSED_SOURCE_REGIONS)
    THEN [u EXCEPT !.closed_code_regions = Append(@, region)]
    ELSE IF InList(region.subtype, DATA_REGIONS)
    THEN [u EXCEPT !.data_regions = Append(@, region)]
    ELSE IF region.subtype = "BIOS"
    THEN u
    ELSE [u EXCEPT !.closed_code_regions = Append(@, region)]

RECURSIVE UEFIImage_classify_regions(_, _)
UEFIImage_classify_regions(u, i) ==
    IF i > u.num_regions THEN u
    ELSE UEFIImage_classify_regions(
             UEFIImage_classify_region(u, u.regions[i]), i + 1)

\* The first statement of a pass of the second loop of _classify_entries:
\* a volume inside the BIOS region that no earlier volume holds.
UEFIImage_classify_volume(u, i) ==
    LET entry == u.uefi_entries[i]
    IN  IF ~UEFIImage_entry_is_volume(entry) THEN u
        ELSE IF "base" \notin DOMAIN u.bios_region
        THEN [u EXCEPT !.raised = "KeyError"]
        ELSE IF /\ UEFIImage_is_entry_inside_bios_region(u, entry)
                /\ ~UEFIImage_is_entry_nested_volume(u, entry)
        THEN LET volume == UEFIVolume(u.uefi_entries, i)
             IN  IF volume.raised # None
                 THEN [u EXCEPT !.raised = volume.raised]
                 ELSE [u EXCEPT !.volumes     = Append(@, volume),
                                !.num_volumes = @ + 1]
        ELSE u

\* The rest of the pass: the paddings between volumes and between regions.
UEFIImage_classify_padding(u, i) ==
    LET entry      == u.uefi_entries[i]
        entry_type == << entry.type, entry.subtype, entry.name >>
        no_bios    == "base" \notin DOMAIN u.bios_region
    IN  IF InList(entry_type, EMPTY_BIOS_PADDING)
        THEN IF no_bios THEN [u EXCEPT !.raised = "KeyError"]
             ELSE IF UEFIImage_is_entry_inside_bios_region(u, entry)
             THEN [u EXCEPT !.empty_spaces = Append(@, entry)]
             ELSE u
        ELSE IF InList(entry_type, NON_EMPTY_BIOS_PADDING)
        THEN IF no_bios THEN [u EXCEPT !.raised = "KeyError"]
             ELSE IF UEFIImage_is_entry_inside_bios_region(u, entry)
             THEN [u EXCEPT !.data_regions = Append(@, entry)]
             ELSE u
        ELSE IF InList(entry_type, EMPTY_REGION_PADDING)
        THEN [u EXCEPT !.empty_spaces = Append(@, entry)]
        ELSE IF InList(entry_type, NON_EMPTY_REGION_PADDING)
        THEN [u EXCEPT !.data_regions = Append(@, entry)]
        ELSE u

UEFIImage_classify_entry(u, i) ==
    LET u1 == UEFIImage_classify_volume(u, i)
    IN  IF u1.raised # None THEN u1 ELSE UEFIImage_classify_padding(u1, i)

\* The second loop of _classify_entries: the passes first..last, in order,
\* the range split in halves; an exception ends the loop.
RECURSIVE UEFIImage_classify_entries_from(_, _, _)
UEFIImage_classify_entries_from(u, first, last) ==
    IF first > last \/ u.raised # None THEN u
    ELSE IF first = last
    THEN UEFIImage_classify_entry(u, first)
    ELSE LET mid == (first + last) \div 2
             left == UEFIImage_classify_entries_from(u, first, mid)
         IN  IF left.raised # None THEN left
             ELSE UEFIImage_classify_entries_from(left, mid + 1, last)

UEFIImage_classify_entries(u) ==
    UEFIImage_classify_entries_from(UEFIImage_classify_regions(u, 1),
                                    1, u.num_entries)

\* sum(list(r['size'] for r in regions))
RECURSIVE UEFIImage_sum_sizes(_)
UEFIImage_sum_sizes(regions) ==
    IF regions = << >> THEN 0
    ELSE Head(regions).size + UEFIImage_sum_sizes(Tail(regions))

\* The loop of _calculate_metrics over the volumes, from volume i on.
RECURSIVE UEFIImage_add_volume_totals(_, _)
UEFIImage_add_volume_totals(u, i) ==
    IF i > u.num_volumes THEN u
    ELSE UEFIImage_add_volume_totals(
             [u EXCEPT
                !.open_code_size   = @ + u.volumes[i].open_code_size,
                !.closed_code_size = @ + u.volumes[i].closed_code_size,
                !.data_size        = @ + u.volumes[i].data_size,
                !.empty_size       = @ + u.volumes[i].empty_size],
             i + 1)

\* _normalize_sizes with the difference added to closed_code_size.
UEFIImage_normalize_sizes_to_closed(u) ==
    LET full_size == u.open_code_size + u.empty_size
                     + u.closed_code_size + u.data_size
    IN  [u EXCEPT !.closed_code_size = @ + (u.image_size - full_size)]

UEFIImage_normalize_sizes(u) ==
    LET full_size == u.open_code_size + u.empty_size
                     + u.closed_code_size + u.data_size
    IN  [u EXCEPT !.data_size = @ + (u.image_size - full_size)]

UEFIImage_calculate_metrics(u) ==
    LET u1 == UEFIImage_classify_entries(u)
        u2 == [u1 EXCEPT
                 !.closed_code_size =
                     UEFIImage_sum_sizes(u1.closed_code_regions),
                 !.data_size  = UEFIImage_sum_sizes(u1.data_regions),
                 !.empty_size = UEFIImage_sum_sizes(u1.empty_spaces)]
    IN  IF u1.raised # None THEN u1
        ELSE UEFIImage_normalize_sizes(UEFIImage_add_volume_totals(u2, 1))


(***************************************************************************)
(* Inputs: what the external tools print                                   *)
(***************************************************************************)
\* Bound on the number of lines of a 'cbfstool print' listing.
MaxFiles == 2

CbfsFile(filename, offset, filetype, size) ==
    [ filename |-> filename, offset |-> offset, filetype |-> filetype,
      size |-> size, compression |-> "none" ]

\* The region a CBFSImage is built from.
CbfsRegionInputs ==
    { [ name |-> "COREBOOT", offset |-> 0, size |-> s, attributes |-> "CBFS" ]
        : s \in {512, 65536} }

\* <<filetype, filename>> of the listed files and <<offset, size>> of their
\* places; in a region of 512 bytes the places leave a gap of 412, 65, 64
\* and -64 bytes behind the file.
CbfsKindInputs ==
    { <<"bootblock", "bootblock">>, <<"fsp", "fspm.bin">>,
      <<"cbfs header", "cbfs_master_header">>, <<"null", "(empty)">>,
      <<"raw", "unknown.bin">> }

CbfsPlaceInputs == { <<0, 100>>, <<256, 191>>, <<256, 192>>, <<256, 320>> }

CbfsFileInputs ==
    { CbfsFile(k[2], p[1], k[1], p[2]) : k \in CbfsKindInputs,
                                         p \in CbfsPlaceInputs }

\* A line of the extracted config file: 'CONFIG_<option>=<value>', or the
\* comment '# CONFIG_<option> is not set', which kconfig_pregexp skips.
OptLine(option, value) ==
    [ assigned |-> TRUE, option |-> option, value |-> value ]

NotSetLine(option) == [ assigned |-> FALSE, option |-> option, value |-> "" ]

Lines(option, values) ==
    { << >> } \cup { << OptLine(option, v) >> : v \in values }

\* Config files over the five options the class reads, each option at most
\* once, as Kconfig writes them.  String values keep their quotes.
ConfigInputs ==
    { a \o b \o c \o d \o e :
        a \in Lines("EDK2_ENABLE_IPXE", {"y", "n"}),
        b \in Lines("PXE", {"y", "n"}),
        c \in Lines("PXE_ROM", {"\"pxe.rom\""}) \cup { << NotSetLine("PXE_ROM") >> },
        d \in Lines("PXE_ROM_ID", {"\"8086,157b\""}),
        e \in Lines("EDK2_LAN_ROM_DRIVER", {"\"IntelGigabitLan.efi\""}) }

\* The same without the LAN driver option.
IpxeConfigInputs ==
    { cfg \in ConfigInputs :
        \A i \in DOMAIN cfg : cfg[i].option # "EDK2_LAN_ROM_DRIVER" }

ConfigSamples ==
    { << >>, << OptLine("PXE", "y") >>,
      << OptLine("EDK2_LAN_ROM_DRIVER", "\"IntelGigabitLan.efi\"") >> }

\* The config file is absent, or holds the lines of one of configs.
ConfigFiles(configs) ==
    { [ found |-> FALSE, lines |-> << >> ] }
        \cup { [ found |-> TRUE, lines |-> l ] : l \in configs }

\* Outcomes of the extraction and compression of the LAN driver.
LanInputs ==
    { [ extracted |-> FALSE, returncode |-> 1, size |-> 0 ],
      [ extracted |-> TRUE,  returncode |-> 1, size |-> 0 ],
      [ extracted |-> TRUE,  returncode |-> 0, size |-> 40 ] }

(***************************************************************************)
(* Construction of one CBFSImage, step by step                             *)
(***************************************************************************)
CbfsStart(regions) ==
    /\ pc = "parse_cbfs_files"
    /\ cbfs \in { CBFSImage_init(r) : r \in regions }
    /\ image = NoImage
    /\ uefi = NoUefi
    /\ session = NoSession

\* _parse_cbfs_files: one more line of the listing.
ParseCbfsFile ==
    /\ pc = "parse_cbfs_files"
    /\ cbfs.num_files < MaxFiles
    /\ \E file \in CbfsFileInputs :
           cbfs' = CBFSImage_parse_cbfs_file(cbfs, file)
    /\ UNCHANGED <<pc, image, uefi, session>>

\* The listing has ended; _parse_cb_config with the config file absent or
\* drawn from configs.
ParseCbConfig(configs) ==
    /\ pc = "parse_cbfs_files"
    /\ \E config \in ConfigFiles(configs), lan \in LanInputs :
           cbfs' = CBFSImage_parse_cb_config(cbfs, config, lan)
    /\ pc' = "calculate_metrics"
    /\ UNCHANGED <<image, uefi, session>>

CalculateMetrics ==
    /\ pc = "calculate_metrics"
    /\ cbfs' = CBFSImage_calculate_metrics(cbfs)
    /\ pc' = IF cbfs'.raised = None THEN "done" ELSE "raised"
    /\ UNCHANGED <<image, uefi, session>>

InitCBFS == CbfsStart(CbfsRegionInputs)

NextCBFS ==
    \/ ParseCbfsFile
    \/ ParseCbConfig(ConfigSamples)
    \/ CalculateMetrics

SpecCBFS == InitCBFS /\ [][NextCBFS]_vars

\* _classify_file on every filetype and a filename of every kind: listings
\* of one line, every config file without the LAN driver.
ClassifyNameInputs ==
    { "fallback/refcode", "fallback/romstage", "config", "fallback/dsdt.aml",
      "doom.wad", "pci10ec,8168.rom", "pci10ec,8168.rom.lzma",
      "pci8086,157b.rom", "unknown.bin" }

ClassifyFileInputs ==
    { CbfsFile(n, 0, CBFS_FILETYPES[t], 100) :
        n \in ClassifyNameInputs, t \in DOMAIN CBFS_FILETYPES }

ClassifyRegion ==
    [ name |-> "COREBOOT", offset |-> 0, size |-> 512, attributes |-> "CBFS" ]

InitClassify ==
    /\ pc = "parse_cbfs_files"
    /\ cbfs \in { CBFSImage_parse_cbfs_files(CBFSImage_init(ClassifyRegion),
                                             << f >>) : f \in ClassifyFileInputs }
    /\ image = NoImage
    /\ uefi = NoUefi
    /\ session = NoSession

NextClassify ==
    \/ ParseCbConfig(IpxeConfigInputs)
    \/ CalculateMetrics

SpecClassify == InitClassify /\ [][NextClassify]_vars

\* _parse_cb_config on every config file, for a few listings.
KconfigListingInputs ==
    { << >>,
      << CbfsFile("fallback/payload", 0, "simple elf", 100) >>,
      << CbfsFile("fallback/payload", 0, "simple elf", 100),
         CbfsFile("pci10ec,8168.rom", 256, "raw", 192) >> }

InitKconfig ==
    /\ pc = "parse_cbfs_files"
    /\ cbfs \in { CBFSImage_parse_cbfs_files(CBFSImage_init(ClassifyRegion), l)
                    : l \in KconfigListingInputs }
    /\ image = NoImage
    /\ uefi = NoUefi
    /\ session = NoSession

NextKconfig ==
    \/ ParseCbConfig(ConfigInputs)
    \/ CalculateMetrics

SpecKconfig == InitKconfig /\ [][NextKconfig]_vars


(***************************************************************************)
(* Construction of a DasharoCorebootImage, step by step                    *)
(***************************************************************************)
\* Bound on the number of regions of a flashmap layout.
MaxRegions == 2

ImageSizeInputs == { 1024, 2048 }

\* <<name, attribute>> of the regions and <<offset, size>> of their places.
RegionKindInputs ==
    { <<"COREBOOT", "CBFS">>, <<"BOOTBLOCK", "">>, <<"SI_ME", "">>,
      <<"UNUSED", "">>, <<"FMAP", "read-only">>, <<"SMMSTORE", "preserve">>,
      <<"WP_RO", "read-only">>, <<"RW_MISC", "">>, <<"FOO", "read-only">>,
      <<"FOO", "">>, <<"BOOTBLOCK", "CBFS">> }

RegionPlaceInputs == { <<0, 512>>, <<512, 512>>, <<0, 1024>> }

RegionInputs ==
    { [ name |-> k[1], offset |-> p[1], size |-> p[2], attributes |-> k[2] ]
        : k \in RegionKindInputs, p \in RegionPlaceInputs }

\* What cbfstool prints and extracts for a CBFS region.  In the last one the
\* payload holds no LAN driver, so UEFIExtract writes no file; returncode
\* and size are those of lzma on a file that is at lan_rom_file all the
\* same.
CbfsToolInputs ==
    { [ listing |-> << >>,
        config  |-> [ found |-> FALSE, lines |-> << >> ],
        lan     |-> [ extracted |-> FALSE, returncode |-> 1, size |-> 0 ] ],
      [ listing |-> << CbfsFile("bootblock", 0, "bootblock", 100) >>,
        config  |-> [ found |-> FALSE, lines |-> << >> ],
        lan     |-> [ extracted |-> FALSE, returncode |-> 1, size |-> 0 ] ],
      [ listing |-> << CbfsFile("fallback/payload", 0, "simple elf", 100),
                       CbfsFile("pci10ec,8168.rom", 256, "raw", 192) >>,
        config  |-> [ found |-> TRUE, lines |-> << OptLine("PXE", "y") >> ],
        lan     |-> [ extracted |-> FALSE, returncode |-> 1, size |-> 0 ] ],
      [ listing |-> << CbfsFile("fallback/payload", 0, "simple elf", 100),
                       CbfsFile("fspm.bin", 256, "fsp", 191) >>,
        config  |-> [ found |-> TRUE, lines |->
                        << OptLine("EDK2_LAN_ROM_DRIVER",
                                   "\"IntelGigabitLan.efi\"") >> ],
        lan     |-> [ extracted |-> TRUE, returncode |-> 0, size |-> 40 ] ],
      [ listing |-> << CbfsFile("fallback/payload", 0, "simple elf", 100),
                       CbfsFile("fspm.bin", 256, "fsp", 191) >>,
        config  |-> [ found |-> TRUE, lines |->
                        << OptLine("EDK2_LAN_ROM_DRIVER",
                                   "\"IntelGigabitLan.efi\"") >> ],
        lan     |-> [ extracted |-> FALSE, returncode |-> 0, size |-> 40 ] ] }

\* The tool is run for CBFS regions only.
ToolInputsFor(region) ==
    IF DasharoCorebootImage_region_is_cbfs(region)
    THEN CbfsToolInputs
    ELSE { CHOOSE t \in CbfsToolInputs : t.listing = << >> }

InitFlash ==
    /\ pc = "parse_cb_fmap_layout"
    /\ image \in { DasharoCorebootImage_init(s) : s \in ImageSizeInputs }
    /\ cbfs = CBFSImage_init(ClassifyRegion)
    /\ uefi = NoUefi
    /\ session = NoSession

\* _parse_cb_fmap_layout: one more region line of the layout.
ParseFmapRegion ==
    /\ pc = "parse_cb_fmap_layout"
    /\ image.num_regions < MaxRegions
    /\ \E region \in RegionInputs :
         \E tool \in ToolInputsFor(region) :
           image' = DasharoCorebootImage_parse_region(image, region, tool)
    /\ pc' = IF image'.raised = None THEN pc ELSE "raised"
    /\ UNCHANGED <<cbfs, uefi, session>>

\* The layout has ended; _calculate_metrics.
ImageCalculateMetrics ==
    /\ pc = "parse_cb_fmap_layout"
    /\ image' = DasharoCorebootImage_calculate_metrics(image)
    /\ pc' = IF image'.raised = None THEN "done" ELSE "raised"
    /\ UNCHANGED <<cbfs, uefi, session>>

NextFlash ==
    \/ ParseFmapRegion
    \/ ImageCalculateMetrics

SpecFlash == InitFlash /\ [][NextFlash]_vars

(***************************************************************************)
(* Construction of a UEFIImage, step by step                               *)
(***************************************************************************)
\* Bound on the number of lines of a UEFIExtract report.
MaxRows == 8

\* What os.path.getsize returns for the image file.
UefiImageSizeInputs == { 96, 112 }

\* A line of the report as report_regexp splits it.
ReportRow(type, subtype, base, size, name) ==
    [ type |-> type, subtype |-> subtype, base |-> base, size |-> size,
      name |-> name ]

\* The lines a report is made of, in the order UEFIExtract prints them: the
\* image, its regions, the volumes of the BIOS region [16, 96) with their
\* files, the paddings after them, and a volume with a file behind the BIOS
\* region.
ReportRows ==
    << ReportRow("Image", "Intel", "00000000", "00000070", "Intel image"),
       ReportRow("Region", "ME", "00000000", "00000010", "- ME region"),
       ReportRow("Region", "BIOS", "00000010", "00000050", "- BIOS region"),
       ReportRow("Volume", "FFSv2", "00000010", "00000040",
                 "-- 8C8CE578-8A3D-4F1C-9935-896185C32DD3"),
       ReportRow("File", "DXE driver", "00000014", "00000008",
                 "--- 9B680FCE-AD6B-4F3A-B60B-F59899003443"),
       ReportRow("Volume", "FFSv2", "00000020", "00000020",
                 "---- 7A9354D9-0468-444A-81CE-0BF617D890DF"),
       ReportRow("Volume", "FFSv2", "00000020", "00000010",
                 "------ 5473C07A-3DCB-4DCA-BD6F-1E9689E7349A"),
       ReportRow("File", "PEI module", "00000024", "00000008",
                 "------- 52C05B14-0B98-496C-BC3B-04B50211D680"),
       ReportRow("Section", "PE32 image", "N/A", "00000008",
                 "-------- PE32 image section"),
       ReportRow("File", "Pad", "00000030", "00000008", "----- Pad-file"),
       ReportRow("NVAR entry", "Full", "00000040", "00000008", "--- Setup"),
       ReportRow("Free space", "", "00000048", "00000008",
                 "--- Volume free space"),
       ReportRow("Padding", "Empty (0xFF)", "00000050", "00000010",
                 "-- Padding"),
       ReportRow("Padding", "Non-empty", "00000060", "00000010",
                 "- Padding"),
       ReportRow("Volume", "FFSv2", "00000060", "00000010",
                 "- 4F1C52D3-D824-4D2A-A2F0-EC40C23C5916"),
       ReportRow("File", "Freeform", "00000064", "00000008",
                 "-- 7BB28B99-61BB-11D5-9A5D-0090273FC14D") >>

\* The entry _parse_uefi_image makes of a report line.
EntryOf(row) == UEFIImage_parse_match(NoUefi, row).uefi_entries[1]

ReportEntries == [ j \in DOMAIN ReportRows |-> EntryOf(ReportRows[j]) ]

\* Index in ReportRows of the line parsed last, 0 before the first.
LastRow(u) ==
    IF u.num_entries = 0 THEN 0
    ELSE CHOOSE j \in DOMAIN ReportRows :
             ReportEntries[j] = u.uefi_entries[u.num_entries]

InitUEFI ==
    /\ pc = "parse_uefi_image"
    /\ uefi \in { UEFIImage_init(s) : s \in UefiImageSizeInputs }
    /\ cbfs = CBFSImage_init(ClassifyRegion)
    /\ image = NoImage
    /\ session = NoSession

\* _parse_uefi_image: one more line of the report, a later one of
\* ReportRows.
ParseReportRow ==
    /\ pc = "parse_uefi_image"
    /\ uefi.num_entries < MaxRows
    /\ \E j \in (LastRow(uefi) + 1)..Len(ReportRows) :
           uefi' = UEFIImage_parse_match(uefi, ReportRows[j])
    /\ UNCHANGED <<pc, cbfs, image, session>>

\* The report has ended; _calculate_metrics.
UefiCalculateMetrics ==
    /\ pc = "parse_uefi_image"
    /\ uefi' = UEFIImage_calculate_metrics(uefi)
    /\ pc' = IF uefi'.raised = None THEN "done" ELSE "raised"
    /\ UNCHANGED <<cbfs, image, session>>

NextUEFI ==
    \/ ParseReportRow
    \/ UefiCalculateMetrics

SpecUEFI == InitUEFI /\ [][NextUEFI]_vars

(***************************************************************************)
(* A UEFIImage of one volume with many entries                             *)
(***************************************************************************)
\* Bound on the number of NVAR entries and files of the volume.
MaxChildren == 100

\* '%08X' % n, the way the report prints a base.
RECURSIVE HexOf(_, _)
HexOf(n, width) ==
    IF width = 0 THEN ""
    ELSE HexOf(n \div 16, width - 1)
         \o SubSeq(HexDigits, (n % 16) + 1, (n % 16) + 1)

\* The BIOS region [16, 144) and its one volume [16, 144).
NvarReportHead ==
    << ReportRow("Region", "BIOS", "00000010", "00000080", "- BIOS region"),
       ReportRow("Volume", "FFSv2", "00000010", "00000080",
                 "-- FFF12B8D-7696-4C8B-A985-2747075B4F50") >>

\* Entry j of the volume, one byte at 16 + j.
NvarEntryRow(j) ==
    ReportRow("NVAR entry", "Full", HexOf(16 + j, 8), "00000001", "--- Setup")

FileRow(j) ==
    ReportRow("File", "Freeform", HexOf(16 + j, 8), "00000001",
              "--- 7BB28B99-61BB-11D5-9A5D-0090273FC14D")

\* The free space that ends the volume, [136, 144).
FreeSpaceRow ==
    ReportRow("Free space", "", "00000088", "00000008",
              "--- Volume free space")

LastType(u) == u.uefi_entries[u.num_entries].type

InitNvar ==
    /\ pc = "parse_uefi_image"
    /\ uefi = UEFIImage_parse_match(
                  UEFIImage_parse_match(UEFIImage_init(144),
                                        NvarReportHead[1]),
                  NvarReportHead[2])
    /\ cbfs = CBFSImage_init(ClassifyRegion)
    /\ image = NoImage
    /\ session = NoSession

\* The NVAR entries come first,
ParseNvarEntryRow ==
    /\ pc = "parse_uefi_image"
    /\ uefi.num_entries - Len(NvarReportHead) < MaxChildren
    /\ LastType(uefi) \in { "Volume", "NVAR entry" }
    /\ uefi' = UEFIImage_parse_match(
                   uefi, NvarEntryRow(uefi.num_entries - Len(NvarReportHead)))
    /\ UNCHANGED <<pc, cbfs, image, session>>

\* then the files,
ParseFileRow ==
    /\ pc = "parse_uefi_image"
    /\ uefi.num_entries - Len(NvarReportHead) < MaxChildren
    /\ LastType(uefi) \in { "Volume", "NVAR entry", "File" }
    /\ uefi' = UEFIImage_parse_match(
                   uefi, FileRow(uefi.num_entries - Len(NvarReportHead)))
    /\ UNCHANGED <<pc, cbfs, image, session>>

\* then the free space, if the volume has any.
ParseFreeSpaceRow ==
    /\ pc = "parse_uefi_image"
    /\ LastType(uefi) # "Free space"
    /\ uefi' = UEFIImage_parse_match(uefi, FreeSpaceRow)
    /\ UNCHANGED <<pc, cbfs, image, session>>

NextNvar ==
    \/ ParseNvarEntryRow
    \/ ParseFileRow
    \/ ParseFreeSpaceRow
    \/ UefiCalculateMetrics

SpecNvar == InitNvar /\ [][NextNvar]_vars

\* Lines of the kinds UEFIVolume._classify_entries tells apart, all inside
\* the volume [16, 144) of NvarReportHead: paddings, free space, pad files,
\* and lines that differ from them in one column.
PadRows ==
    << ReportRow("Padding", "Empty (0xFF)", "00000010", "00000008",
                 "--- Padding"),
       ReportRow("Padding", "Empty (0x00)", "00000018", "00000008",
                 "--- Padding"),
       ReportRow("Padding", "Non-empty", "00000020", "00000008",
                 "--- Padding"),
       ReportRow("Free space", "", "00000028", "00000008",
                 "--- Volume free space"),
       ReportRow("File", "Pad", "00000030", "00000008", "--- Pad-file"),
       ReportRow("File", "Pad", "00000038", "00000008",
                 "--- Non-empty pad-file"),
       ReportRow("File", "Pad", "00000040", "00000008",
                 "--- FFFFFFFF-FFFF-FFFF-FFFF-FFFFFFFFFFFF"),
       ReportRow("File", "Freeform", "00000048", "00000008", "--- Pad-file"),
       ReportRow("Padding", "Empty (0xFF)", "00000050", "00000000",
                 "--- Padding"),
       ReportRow("Padding", "Empty (0xFF)", "N/A", "00000008",
                 "--- Padding") >>

\* _parse_uefi_image: one more line of the report, a later one of PadRows.
ParsePadRow ==
    /\ pc = "parse_uefi_image"
    /\ LET last == IF uefi.num_entries = Len(NvarReportHead) THEN 0
                   ELSE CHOOSE j \in DOMAIN PadRows :
                            EntryOf(PadRows[j])
                                = uefi.uefi_entries[uefi.num_entries]
       IN  \E j \in (last + 1)..Len(PadRows) :
               uefi' = UEFIImage_parse_match(uefi, PadRows[j])
    /\ UNCHANGED <<pc, cbfs, image, session>>

NextPad ==
    \/ ParsePadRow
    \/ UefiCalculateMetrics

SpecPad == InitNvar /\ [][NextPad]_vars

\* Lines inside the volume [16, 144) of NvarReportHead: a nested volume
\* [16, 112) with a driver and 88 bytes of free space, a second nested volume
\* [112, 128) with a file and free space, and a file and the free space of
\* the outer volume; behind the outer volume a volume [144, 160) with a file
\* and a section without base.
NestRows ==
    << ReportRow("Volume", "FFSv2", "00000010", "00000060",
                 "---- 7A9354D9-0468-444A-81CE-0BF617D890DF"),
       ReportRow("File", "DXE driver", "00000010", "00000008",
                 "----- 9B680FCE-AD6B-4F3A-B60B-F59899003443"),
       ReportRow("Free space", "", "00000018", "00000058",
                 "----- Volume free space"),
       ReportRow("Volume", "FFSv2", "00000070", "00000010",
                 "---- 5473C07A-3DCB-4DCA-BD6F-1E9689E7349A"),
       ReportRow("File", "PEI module", "00000070", "00000008",
                 "----- 52C05B14-0B98-496C-BC3B-04B50211D680"),
       ReportRow("Free space", "", "00000078", "00000008",
                 "----- Volume free space"),
       ReportRow("File", "Freeform", "00000080", "00000008",
                 "--- 7BB28B99-61BB-11D5-9A5D-0090273FC14D"),
       ReportRow("Free space", "", "00000088", "00000008",
                 "--- Volume free space"),
       ReportRow("Volume", "FFSv2", "00000090", "00000010",
                 "-- 4F1C52D3-D824-4D2A-A2F0-EC40C23C5916"),
       ReportRow("File", "DXE driver", "00000094", "00000008",
                 "--- 52C05B14-0B98-496C-BC3B-04B50211D680"),
       ReportRow("Section", "PE32 image", "N/A", "00000008",
                 "---- PE32 image section") >>

\* _parse_uefi_image: one more line of the report, a later one of NestRows.
ParseNestRow ==
    /\ pc = "parse_uefi_image"
    /\ LET last == IF uefi.num_entries = Len(NvarReportHead) THEN 0
                   ELSE CHOOSE j \in DOMAIN NestRows :
                            EntryOf(NestRows[j])
                                = uefi.uefi_entries[uefi.num_entries]
       IN  \E j \in (last + 1)..Len(NestRows) :
               uefi' = UEFIImage_parse_match(uefi, NestRows[j])
    /\ UNCHANGED <<pc, cbfs, image, session>>

NextNest ==
    \/ ParseNestRow
    \/ UefiCalculateMetrics

SpecNest == InitNvar /\ [][NextNest]_vars

(***************************************************************************)
(* Several constructions in one Python process                             *)
(***************************************************************************)
\* Bound on the number of objects a process builds from the same outputs.
MaxBuilds == 2

\* _parse_cb_fmap_layout on a whole layout: layout[i].region is the i-th
\* match and layout[i].tool what cbfstool gives for it.  An exception ends
\* the loop.
RECURSIVE DasharoCorebootImage_parse_cb_fmap_layout(_, _)
DasharoCorebootImage_parse_cb_fmap_layout(img, layout) ==
    IF layout = << >> \/ img.raised # None THEN img
    ELSE DasharoCorebootImage_parse_cb_fmap_layout(
             DasharoCorebootImage_parse_region(img, Head(layout).region,
                                               Head(layout).tool),
             Tail(layout))

\* DasharoCorebootImage(image_path): __init__
DasharoCorebootImage(image_size, layout) ==
    LET img == DasharoCorebootImage_parse_cb_fmap_layout(
                   DasharoCorebootImage_init(image_size), layout)
    IN  IF img.raised # None THEN img
        ELSE DasharoCorebootImage_calculate_metrics(img)

\* _parse_uefi_image on a whole report.
RECURSIVE UEFIImage_parse_uefi_image(_, _)
UEFIImage_parse_uefi_image(u, report) ==
    IF report = << >> THEN u
    ELSE UEFIImage_parse_uefi_image(UEFIImage_parse_match(u, Head(report)),
                                    Tail(report))

\* UEFIImage(image_path): __init__
UEFIImage(image_size, report) ==
    UEFIImage_calculate_metrics(
        UEFIImage_parse_uefi_image(UEFIImage_init(image_size), report))

\* lan_rom_file of _check_for_lanrom
LanRomFile(region) == "/tmp/lan_rom_" \o region.name \o "/body_1.bin"

\* What _check_for_lanrom finds when the process has files in /tmp: the
\* file lan_rom_file is there when UEFIExtract has written it or when an
\* earlier construction has left it.
LanWithTmp(tmp, region, lan) ==
    [lan EXCEPT !.extracted = @ \/ LanRomFile(region) \in tmp]

CbConfigFile(region) == "/tmp/cb_config_" \o region.name

PayloadFile(region) == "/tmp/payload_" \o region.name

\* /tmp after CBFSImage().  cbfstool writes /tmp/cb_config_<region> when the
\* CBFS has a config; without the file _parse_cb_config returns.  With the
\* option EDK2_LAN_ROM_DRIVER, cbfstool writes /tmp/payload_<region> when
\* the CBFS has fallback/payload and UEFIExtract writes lan_rom_file when it
\* finds the driver.  The cleanup of _check_for_lanrom passes 'rm' the single
\* word '-rf/tmp/payload_<region>', an option 'rm' rejects, so it removes
\* nothing, and the earlier returns skip it.  The 'rm' at the end of
\* _parse_cb_config removes /tmp/cb_config_<region>.
TmpAfterCbfs(tmp, region, tool) ==
    LET opts    == KconfigMatches(tool.config.lines)
        payload == IF \E i \in DOMAIN tool.listing :
                          tool.listing[i].filename = "fallback/payload"
                   THEN { PayloadFile(region) } ELSE { }
        driver  == IF tool.lan.extracted
                   THEN { LanRomFile(region) } ELSE { }
        config  == tmp \cup { CbConfigFile(region) }
        lanrom  == IF \E i \in DOMAIN opts :
                          opts[i].option = "EDK2_LAN_ROM_DRIVER"
                   THEN config \cup payload \cup driver
                   ELSE config
    IN  IF ~tool.config.found THEN tmp
        ELSE lanrom \ { CbConfigFile(region) }

\* A CBFSImage built by a process with the files tmp.
CBFSImageWithTmp(tmp, region, tool) ==
    CBFSImage(region, tool.listing, tool.config,
              LanWithTmp(tmp, region, tool.lan))

\* /tmp after DasharoCorebootImage(): after the CBFSImage of each CBFS
\* region of the layout, up to the one that raises.
RECURSIVE TmpAfterLayout(_, _)
TmpAfterLayout(tmp, layout) ==
    IF layout = << >> THEN tmp
    ELSE IF ~DasharoCorebootImage_region_is_cbfs(Head(layout).region)
    THEN TmpAfterLayout(tmp, Tail(layout))
    ELSE IF CBFSImageWithTmp(tmp, Head(layout).region,
                             Head(layout).tool).raised # None
    THEN TmpAfterCbfs(tmp, Head(layout).region, Head(layout).tool)
    ELSE TmpAfterLayout(
             TmpAfterCbfs(tmp, Head(layout).region, Head(layout).tool),
             Tail(layout))

\* The layout as the CBFSImages of a process with the files tmp see it.
RECURSIVE LayoutWithTmp(_, _)
LayoutWithTmp(tmp, layout) ==
    IF layout = << >> THEN << >>
    ELSE << [ region |-> Head(layout).region,
              tool   |-> [Head(layout).tool EXCEPT
                            !.lan = LanWithTmp(tmp, Head(layout).region, @)] ] >>
         \o LayoutWithTmp(
                IF DasharoCorebootImage_region_is_cbfs(Head(layout).region)
                THEN TmpAfterCbfs(tmp, Head(layout).region, Head(layout).tool)
                ELSE tmp,
                Tail(layout))

\* The outputs of the tools for one image file, by the class that reads
\* them: a CBFS region of CbfsToolInputs; a flashmap layout of up to two
\* regions; a report made of the regions of ReportRows and a run of its
\* later lines, or of a run of lines alone.
SessionInputs ==
    LET Region(name, attributes, offset) ==
            [ name |-> name, offset |-> offset, size |-> 512,
              attributes |-> attributes ]
        notool  == CHOOSE t \in CbfsToolInputs : t.listing = << >>
        layouts ==
            { << >>,
              << [ region |-> Region("BOOTBLOCK", "", 512),
                   tool   |-> notool ] >> }
            \cup { << [ region |-> Region("COREBOOT", "CBFS", 0),
                        tool   |-> t ] >> \o rest :
                     t \in CbfsToolInputs,
                     rest \in { << >>,
                                << [ region |-> Region("SMMSTORE", "preserve",
                                                       512),
                                     tool   |-> notool ] >> } }
        reports ==
            { SubSeq(ReportRows, 2, 3) \o SubSeq(ReportRows, a, b)
                : a \in 4..Len(ReportRows), b \in 3..Len(ReportRows) }
            \cup { SubSeq(ReportRows, a, Len(ReportRows)) : a \in 1..4 }
    IN  { [ kind |-> "CBFSImage", region |-> ClassifyRegion, tool |-> t ]
            : t \in CbfsToolInputs }
        \cup { [ kind |-> "DasharoCorebootImage", image_size |-> 1024,
                 layout |-> l ] : l \in layouts }
        \cup { [ kind |-> "UEFIImage", image_size |-> 96, report |-> r ]
                 : r \in reports }

\* A process starts with /tmp empty or holding the LAN driver an earlier
\* run left there.
InitSession ==
    /\ pc = "construct"
    /\ session \in { [ tools |-> t, tmp |-> f, built |-> << >> ]
                       : t \in SessionInputs,
                         f \in { { }, { LanRomFile(ClassifyRegion) } } }
    /\ cbfs = CBFSImage_init(ClassifyRegion)
    /\ image = NoImage
    /\ uefi = NoUefi

\* CBFSImage(image_path, region) once more, on the same outputs.
ConstructCBFSImage ==
    /\ pc = "construct"
    /\ session.tools.kind = "CBFSImage"
    /\ Len(session.built) < MaxBuilds
    /\ cbfs' = CBFSImageWithTmp(session.tmp, session.tools.region,
                                session.tools.tool)
    /\ session' = [session EXCEPT
                      !.tmp   = TmpAfterCbfs(@, session.tools.region,
                                             session.tools.tool),
                      !.built = Append(@, cbfs')]
    /\ UNCHANGED <<pc, image, uefi>>

\* DasharoCorebootImage(image_path) once more, on the same outputs.
ConstructDasharoCorebootImage ==
    /\ pc = "construct"
    /\ session.tools.kind = "DasharoCorebootImage"
    /\ Len(session.built) < MaxBuilds
    /\ image' = DasharoCorebootImage(
                    session.tools.image_size,
                    LayoutWithTmp(session.tmp, session.tools.layout))
    /\ session' = [session EXCEPT
                      !.tmp   = TmpAfterLayout(@, session.tools.layout),
                      !.built = Append(@, image')]
    /\ UNCHANGED <<pc, cbfs, uefi>>

\* UEFIImage(image_path) once more, on the same report.
ConstructUEFIImage ==
    /\ pc = "construct"
    /\ session.tools.kind = "UEFIImage"
    /\ Len(session.built) < MaxBuilds
    /\ uefi' = UEFIImage(session.tools.image_size, session.tools.report)
    /\ session' = [session EXCEPT !.built = Append(@, uefi')]
    /\ UNCHANGED <<pc, cbfs, image>>

NextSession ==
    \/ ConstructCBFSImage
    \/ ConstructDasharoCorebootImage
    \/ ConstructUEFIImage

SpecSession == InitSession /\ [][NextSession]_vars

(***************************************************************************)
(* Properties                                                              *)
(***************************************************************************)
FourTotals(o) ==
    o.open_code_size + o.closed_code_size + o.data_size + o.empty_size

CbfsLastFile == cbfs.cbfs_files[Len(cbfs.cbfs_files)]

CbfsTruncatedGap ==
    cbfs.cbfs_size - (CbfsLastFile.offset + CbfsLastFile.size)

\* C1: a CBFSImage built from a listing of at least one file is constructed
\* without an exception and its four totals sum to cbfs_size, whatever the
\* files, the config and lan_rom_size.
C1_CbfsTotalsSumToCbfsSize ==
    (pc \in {"done", "raised"} /\ cbfs.num_files >= 1)
        => (pc = "done" /\ FourTotals(cbfs) = cbfs.cbfs_size)

\* A truncated CBFS of two files with a LAN driver accounted for.
C1_Witness ==
    /\ pc = "done"
    /\ cbfs.num_files = 2
    /\ cbfs.lan_rom_size # 0
    /\ CbfsTruncatedGap > 64
    /\ FourTotals(cbfs) = cbfs.cbfs_size

\* C5 as amended: a gap of exactly 64 bytes behind the last file adds nothing
\* to empty_size, a gap of exactly 65 bytes adds the whole gap, 65 bytes.
C5_Gap65AddsWholeGap ==
    pc = "done" =>
        /\ CbfsTruncatedGap = 64
              => cbfs.empty_size = SumSizes(cbfs.empty_files)
        /\ CbfsTruncatedGap = 65
              => cbfs.empty_size = SumSizes(cbfs.empty_files) + 65

C5_Witness ==
    /\ pc = "done"
    /\ CbfsTruncatedGap = 65
    /\ cbfs.empty_files # << >>
    /\ cbfs.empty_size = SumSizes(cbfs.empty_files) + 65

\* C5 as stated: a gap of exactly 64 bytes adds nothing to empty_size, a gap
\* of exactly 65 bytes adds exactly 1 byte.
C5_Gap65AddsOneByte ==
    pc = "done" =>
        /\ CbfsTruncatedGap = 64
              => cbfs.empty_size = SumSizes(cbfs.empty_files)
        /\ CbfsTruncatedGap = 65
              => cbfs.empty_size = SumSizes(cbfs.empty_files) + 1

ClaimedClosedFiletypes ==
    { "optionrom", "vsa", "mbi", "microcode", "fsp", "mrc", "mma", "efi",
      "amdfw" }

\* C7: a file of a closed-source filetype is in closed_code_files and not in
\* open_code_files, whatever its name and the iPXE state.
C7_ClosedFiletypeNeverOpen ==
    pc = "done" =>
        \A i \in 1..Len(cbfs.cbfs_files) :
            cbfs.cbfs_files[i].filetype \in ClaimedClosedFiletypes
                => /\ InList(cbfs.cbfs_files[i], cbfs.closed_code_files)
                   /\ ~InList(cbfs.cbfs_files[i], cbfs.open_code_files)

\* An efi file that carries the name of the iPXE ROM while iPXE is present.
C7_Witness ==
    /\ pc = "done"
    /\ cbfs.ipxe_present /\ ~cbfs.edk2_ipxe
    /\ cbfs.cbfs_files[1].filetype = "efi"
    /\ cbfs.cbfs_files[1].filename = "pci" \o cbfs.ipxe_rom_id \o ".rom"
    /\ cbfs.closed_code_files = cbfs.cbfs_files

\* The lists, of the five, that hold the file.
ListsHolding(file) ==
    { l \in {"open", "closed", "data", "empty", "uncategorized"} :
        InList(file, CASE l = "open"   -> cbfs.open_code_files
                       [] l = "closed" -> cbfs.closed_code_files
                       [] l = "data"   -> cbfs.data_files
                       [] l = "empty"  -> cbfs.empty_files
                       [] OTHER        -> cbfs.uncategorized_files) }

\* C8: a raw file named doom.wad is classified closed-source, and any raw
\* file whose name is in one of the three name lists lands in the list of
\* that name list alone, for every value of ipxe_present, edk2_ipxe and
\* ipxe_rom_id.
C8_RawNameListsIgnoreKconfig ==
    pc = "done" =>
        \A i \in 1..Len(cbfs.cbfs_files) :
            LET file == cbfs.cbfs_files[i] IN
            file.filetype = "raw" =>
                /\ file.filename = "doom.wad" => ListsHolding(file) = {"closed"}
                /\ InList(file.filename, RAW_DATA_FILES)
                       => ListsHolding(file) = {"data"}
                /\ InList(file.filename, RAW_OPEN_SOURCE_FILES)
                       => ListsHolding(file) = {"open"}
                /\ InList(file.filename, RAW_CLOSED_SOURCE_FILES)
                       => ListsHolding(file) = {"closed"}

\* doom.wad while an iPXE ROM of a configured PCI id is expected.
C8_Witness ==
    /\ pc = "done"
    /\ cbfs.ipxe_present /\ ~cbfs.edk2_ipxe
    /\ cbfs.ipxe_rom_id # "10ec,8168"
    /\ cbfs.cbfs_files[1].filetype = "raw"
    /\ cbfs.cbfs_files[1].filename = "doom.wad"
    /\ cbfs.closed_code_files = cbfs.cbfs_files

KconfigHas(option) ==
    \E i \in 1..Len(cbfs.kconfig_opts) : cbfs.kconfig_opts[i].option = option

KconfigIs(option, value) ==
    \E i \in 1..Len(cbfs.kconfig_opts) :
        cbfs.kconfig_opts[i] = [option |-> option, value |-> value]

\* C9: once the config is parsed, EDK2_ENABLE_IPXE=y gives ipxe_present and
\* edk2_ipxe; otherwise PXE=y without a PXE_ROM option gives ipxe_present
\* and not edk2_ipxe; otherwise neither.  The config that holds CONFIG_PXE=y
\* alone gives ipxe_present, not edk2_ipxe, ipxe_rom_id '10ec,8168'.
C9_CheckForIpxe ==
    pc # "parse_cbfs_files" =>
        /\ KconfigIs("EDK2_ENABLE_IPXE", "y")
              => (cbfs.ipxe_present /\ cbfs.edk2_ipxe)
        /\ (/\ ~KconfigIs("EDK2_ENABLE_IPXE", "y")
            /\ KconfigIs("PXE", "y")
            /\ ~KconfigHas("PXE_ROM"))
              => (cbfs.ipxe_present /\ ~cbfs.edk2_ipxe)
        /\ (/\ ~KconfigIs("EDK2_ENABLE_IPXE", "y")
            /\ ~(KconfigIs("PXE", "y") /\ ~KconfigHas("PXE_ROM")))
              => (~cbfs.ipxe_present /\ ~cbfs.edk2_ipxe)
        /\ (/\ ~KconfigIs("EDK2_ENABLE_IPXE", "y")
            /\ KconfigIs("PXE", "y")
            /\ ~KconfigHas("PXE_ROM")
            /\ ~KconfigHas("PXE_ROM_ID"))
              => (/\ cbfs.ipxe_present
                  /\ ~cbfs.edk2_ipxe
                  /\ cbfs.ipxe_rom_id = "10ec,8168")

C9_Witness ==
    /\ pc = "done"
    /\ cbfs.kconfig_opts = << [option |-> "PXE", value |-> "y"] >>
    /\ cbfs.ipxe_present
    /\ ~cbfs.edk2_ipxe
    /\ cbfs.ipxe_rom_id = "10ec,8168"

\* C10: a container of size S that lists one bootblock file (not one of the
\* closed-source exceptions) of size s at offset 0, with no Kconfig option
\* and S - s > 64, ends with open = s, empty = S - s, data = 0, closed = 0.
C10_SingleBootblock ==
    (/\ pc \in {"done", "raised"}
     /\ cbfs.num_files = 1
     /\ cbfs.cbfs_files[1].filetype = "bootblock"
     /\ ~InList(cbfs.cbfs_files[1].filename, CLOSED_SOURCE_EXCEPTIONS)
     /\ cbfs.cbfs_files[1].offset = 0
     /\ cbfs.kconfig_opts = << >>
     /\ cbfs.cbfs_size - cbfs.cbfs_files[1].size > 64)
        => /\ pc = "done"
           /\ cbfs.open_code_size = cbfs.cbfs_files[1].size
           /\ cbfs.empty_size = cbfs.cbfs_size - cbfs.cbfs_files[1].size
           /\ cbfs.data_size = 0
           /\ cbfs.closed_code_size = 0

\* S = 0x10000, s = 100.
C10_Witness ==
    /\ pc = "done"
    /\ cbfs.cbfs_size = 65536
    /\ cbfs.cbfs_files = << CbfsFile("bootblock", 0, "bootblock", 100) >>
    /\ cbfs.kconfig_opts = << >>
    /\ cbfs.open_code_size = 100
    /\ cbfs.closed_code_size + cbfs.data_size + cbfs.empty_size = 65536 - 100

\* A region whose size _calculate_metrics counts: a CBFS region, or one that
\* _classify_region put into one of its five lists.
RegionIsCounted(region) ==
    \/ region.attributes = "CBFS"
    \/ /\ region.name \notin { "RW_MISC", "UNIFIED_MRC_CACHE", "RW_SHARED",
                               "SI_ALL", "RW_SECTION_A", "RW_SECTION_B",
                               "WP_RO", "RO_SECTION" }
       /\ \/ region.attributes # "read-only"
          \/ InList(region.name, CODE_REGIONS)
          \/ InList(region.name, BLOB_REGIONS)
          \/ InList(region.name, EMPTY_REGIONS)
          \/ InList(region.name, FMAP_DATA_REGIONS)

RECURSIVE CountedSize(_)
CountedSize(regions) ==
    IF regions = << >> THEN 0
    ELSE (IF RegionIsCounted(Head(regions)) THEN Head(regions).size ELSE 0)
         + CountedSize(Tail(regions))

\* C4 as amended: after _calculate_metrics and _normalize_sizes of an image
\* with at least one region, the four totals sum to the offset of the first
\* parsed region plus the sizes of the regions that are CBFS regions or were
\* put into one of the five region lists; nothing makes that equal to
\* image_size.
C4_ImageTotalsSumToCountedRegions ==
    (pc = "done" /\ image.num_regions >= 1)
        => FourTotals(image)
               = image.fmap_regions[1].offset + CountedSize(image.fmap_regions)

\* A CBFS region behind a gap of 512 bytes: here the sum is image_size.
C4_Witness ==
    /\ pc = "done"
    /\ image.num_regions = 1
    /\ image.num_cbfses = 1
    /\ image.fmap_regions[1].offset = 512
    /\ FourTotals(image) = image.image_size

\* C4 as stated: the four totals of an image with at least one region sum to
\* image_size.
C4_ImageTotalsSumToImageSize ==
    (pc = "done" /\ image.num_regions >= 1)
        => FourTotals(image) = image.image_size

\* The volumes of a list of volumes and the volumes nested in them, at any
\* depth.
RECURSIVE VolumesOf(_)
VolumesOf(volumes) ==
    UNION { { volumes[i] } \cup VolumesOf(volumes[i].nested_volumes)
              : i \in DOMAIN volumes }

\* Sum of the attribute f of the objects of a list.
RECURSIVE SumField(_, _)
SumField(objs, f) ==
    IF objs = << >> THEN 0
    ELSE Head(objs)[f] + SumField(Tail(objs), f)

\* C2: every UEFIVolume, top-level or nested at any depth, that has at least
\* one child entry has, after UEFIVolume._normalize_sizes, four totals that
\* sum to volume_size exactly.
C2_VolumeTotalsSumToVolumeSize ==
    \A v \in VolumesOf(uefi.volumes) :
        Len(v.volume_entries) >= 1 => FourTotals(v) = v.volume_size

\* A volume with a volume nested in a volume nested in it, each with entries.
C2_Witness ==
    /\ pc = "done"
    /\ \E a \in VolumesOf(uefi.volumes) :
         \E b \in VolumesOf(a.nested_volumes) :
           \E c \in VolumesOf(b.nested_volumes) :
              /\ Len(a.volume_entries) >= 1
              /\ Len(b.volume_entries) >= 1
              /\ Len(c.volume_entries) >= 1
              /\ FourTotals(c) = c.volume_size
              /\ FourTotals(a) = a.volume_size

\* The totals of a UEFIImage before _normalize_sizes, from what
\* _classify_entries left in its lists and from its volumes.
UefiClassifiedOpen == SumField(uefi.volumes, "open_code_size")

UefiClassifiedClosed ==
    SumField(uefi.closed_code_regions, "size")
    + SumField(uefi.volumes, "closed_code_size")

UefiClassifiedData ==
    SumField(uefi.data_regions, "size") + SumField(uefi.volumes, "data_size")

UefiClassifiedEmpty ==
    SumField(uefi.empty_spaces, "size") + SumField(uefi.volumes, "empty_size")

UefiDifference ==
    uefi.image_size - (UefiClassifiedOpen + UefiClassifiedClosed
                       + UefiClassifiedData + UefiClassifiedEmpty)

NvarEntries(v) ==
    Cardinality({ i \in DOMAIN v.volume_entries :
                      v.volume_entries[i].type = "NVAR entry" })

\* What a volume has classified before the remainder is added: its own
\* lists and the totals of its nested volumes.
VolumeClassifiedClosed(v) ==
    SumField(v.closed_code_files, "size")
    + SumField(v.nested_volumes, "closed_code_size")

VolumeClassifiedData(v) ==
    SumField(v.data_files, "size") + SumField(v.nested_volumes, "data_size")

VolumeClassifiedEmpty(v) ==
    SumField(v.empty_files, "size") + SumField(v.nested_volumes, "empty_size")

VolumeRemainder(v) ==
    v.volume_size - (VolumeClassifiedEmpty(v) + VolumeClassifiedClosed(v)
                     + VolumeClassifiedData(v))

TotalsOf(o) ==
    [ open_code_size   |-> o.open_code_size,
      closed_code_size |-> o.closed_code_size,
      data_size        |-> o.data_size,
      empty_size       |-> o.empty_size ]

\* The four totals of a flash image as its lists give them: the regions of
\* each list, the uncategorized regions as closed code, the totals of every
\* CBFS, and the offset of the first parsed region as closed code.
FlashListTotals(img) ==
    [ open_code_size   |-> SumSizes(img.open_code_regions)
                           + SumField(img.cbfs_images, "open_code_size"),
      closed_code_size |-> SumSizes(img.closed_code_regions)
                           + SumSizes(img.uncategorized_regions)
                           + SumField(img.cbfs_images, "closed_code_size")
                           + img.fmap_regions[1].offset,
      data_size        |-> SumSizes(img.data_regions)
                           + SumField(img.cbfs_images, "data_size"),
      empty_size       |-> SumSizes(img.empty_regions)
                           + SumField(img.cbfs_images, "empty_size") ]

MismatchWarning(img) ==
    [ text |-> "WARNING: Something went wrong. The component sizes do not sum up to the image size. %d != %d",
      args |-> << FourTotals(img), img.image_size >> ]

\* _calculate_metrics has run on an image with at least one region.
FlashMetricsStep ==
    /\ pc = "parse_cb_fmap_layout"
    /\ pc' # pc
    /\ image'.fmap_regions = image.fmap_regions
    /\ image.num_regions >= 1

\* C12: when the totals of a flash image do not sum to image_size,
\* _normalize_sizes raises nothing, prints the warning with the sum it
\* found, and leaves the four totals as they were computed from the lists.
C12_MismatchOnlyWarns ==
    [][ (FlashMetricsStep /\ FourTotals(FlashListTotals(image')) # image.image_size)
            => /\ pc' = "done"
               /\ image'.raised = None
               /\ TotalsOf(image') = FlashListTotals(image')
               /\ image'.printed # << >>
               /\ image'.printed[Len(image'.printed)] = MismatchWarning(image') ]_vars

\* A finished image of one region of 512 bytes in a flash of 1024 bytes, with
\* the warning printed.
C12_Witness ==
    /\ pc = "done"
    /\ image.num_regions = 1
    /\ image.image_size = 1024
    /\ FourTotals(image) = 512
    /\ image.printed # << >>
    /\ image.printed[Len(image.printed)] = MismatchWarning(image)

\* The totals of a flash image as its lists give them, before anything is
\* added for bytes no region covers.
FlashClassified(img) ==
    [FlashListTotals(img) EXCEPT
        !.closed_code_size = @ - img.fmap_regions[1].offset]

SessionBuiltFlash ==
    /\ session.tools.kind = "DasharoCorebootImage"
    /\ session.built # << >>
    /\ image.raised = None

SessionBuiltUefi ==
    /\ session.tools.kind = "UEFIImage"
    /\ session.built # << >>
    /\ uefi.raised = None

C14_EmptyCbfsIsEmptyContainer ==
    (pc \in {"done", "raised"} /\ cbfs.num_files = 0)
        => /\ pc = "done"
           /\ cbfs.raised = None
           /\ cbfs.open_code_size = 0
           /\ cbfs.closed_code_size = 0
           /\ cbfs.data_size = 0
           /\ cbfs.empty_size = 0

\* The construction of a CBFSImage without files has ended in KeyError.
C14_Witness ==
    /\ pc = "raised"
    /\ cbfs.num_files = 0
    /\ cbfs.cbfs_files = << >>
    /\ cbfs.raised = "KeyError"

\* C15: a volume without child entries is constructed without an exception,
\* is no variable store, and has its whole volume_size in closed_code_size.
C15_ChildlessVolumeIsClosed ==
    (pc \in {"done", "raised"} /\ uefi.num_entries = Len(NvarReportHead))
        => /\ pc = "done"
           /\ uefi.raised = None
           /\ uefi.num_volumes = 1
           /\ uefi.volumes[1].volume_entries = << >>
           /\ uefi.volumes[1].closed_code_size = uefi.volumes[1].volume_size
           /\ uefi.volumes[1].data_size = 0

\* The report ends with the line of the volume and the construction of the
\* UEFIVolume has ended in ZeroDivisionError.
C15_Witness ==
    /\ pc = "raised"
    /\ uefi.num_entries = Len(NvarReportHead)
    /\ LastType(uefi) = "Volume"
    /\ uefi.raised = "ZeroDivisionError"

\* C16: a flash image whose layout has no region line is constructed without
\* an exception, with no region, all four totals 0 and the warning of the
\* final check printed.
C16_NoRegionOnlyWarns ==
    (pc \in {"done", "raised"} /\ image.fmap_regions = << >>)
        => /\ pc = "done"
           /\ image.raised = None
           /\ image.num_regions = 0
           /\ TotalsOf(image) = TotalsOf(NoImage)
           /\ image.printed = << MismatchWarning(image) >>

\* The construction of an image without regions has ended in KeyError with
\* nothing printed.
C16_Witness ==
    /\ pc = "raised"
    /\ image.fmap_regions = << >>
    /\ image.num_regions = 0
    /\ image.raised = "KeyError"
    /\ image.printed = << >>

\* A raw file that no name list knows and that is not the iPXE ROM of the
\* configured PCI id.
UnknownRawFile(file) ==
    /\ file.filetype = "raw"
    /\ ~InList(file.filename, RAW_DATA_FILES)
    /\ ~InList(file.filename, RAW_OPEN_SOURCE_FILES)
    /\ ~InList(file.filename, RAW_CLOSED_SOURCE_FILES)
    /\ file.filename # "pci" \o cbfs.ipxe_rom_id \o ".rom"
    /\ file.filename # "pci" \o cbfs.ipxe_rom_id \o ".rom.lzma"

\* C17: every such file is in uncategorized_files and in no other list, and
\* its size is part of closed_code_size, whatever ipxe_present and edk2_ipxe
\* are.
C17_UnknownRawIsUncategorized ==
    pc = "done" =>
        \A i \in 1..Len(cbfs.cbfs_files) :
            UnknownRawFile(cbfs.cbfs_files[i]) =>
                /\ ListsHolding(cbfs.cbfs_files[i]) = {"uncategorized"}
                /\ cbfs.closed_code_size >= cbfs.cbfs_files[i].size

\* unknown.bin while an iPXE ROM is expected: the file is in no list and
\* closed_code_size is 0.
C17_Witness ==
    /\ pc = "done"
    /\ cbfs.ipxe_present /\ ~cbfs.edk2_ipxe
    /\ cbfs.cbfs_files[1].filename = "unknown.bin"
    /\ UnknownRawFile(cbfs.cbfs_files[1])
    /\ ListsHolding(cbfs.cbfs_files[1]) = { }
    /\ cbfs.closed_code_size = 0

\* The entries of a list, as a set.
EntriesOf(entries) == { entries[i] : i \in DOMAIN entries }

\* The entries the volumes nested in v took as their own, and the volumes
\* nested in those.
ConsumedEntries(v) ==
    UNION { EntriesOf(v.nested_volumes[i].volume_entries)
              : i \in DOMAIN v.nested_volumes }

ConsumedVolumes(v) ==
    UNION { EntriesOf(v.nested_volumes[i].nested_volumes)
              : i \in DOMAIN v.nested_volumes }

\* C18: a volume holds none of the entries of the volumes nested in it, and
\* the volumes nested in a nested volume are not nested volumes of the
\* parent as well.
C18_NestedEntriesAreSkipped ==
    \A v \in VolumesOf(uefi.volumes) :
        /\ EntriesOf(v.volume_entries) \cap ConsumedEntries(v) = { }
        /\ EntriesOf(v.nested_volumes) \cap ConsumedVolumes(v) = { }

\* A volume that holds the file of the volume nested two levels below it and
\* has built that volume itself as well.
C18_Witness ==
    /\ pc = "done"
    /\ \E v \in VolumesOf(uefi.volumes) :
           /\ Len(v.nested_volumes) >= 2
           /\ \E e \in EntriesOf(v.volume_entries) \cap ConsumedEntries(v) :
                  e.type = "File"
           /\ EntriesOf(v.nested_volumes) \cap ConsumedVolumes(v) # { }

\* The region lists of the image that hold a region.
RegionListsHolding(region) ==
    { l \in {"open", "closed", "data", "empty", "uncategorized"} :
        InList(region, CASE l = "open"   -> image.open_code_regions
                         [] l = "closed" -> image.closed_code_regions
                         [] l = "data"   -> image.data_regions
                         [] l = "empty"  -> image.empty_regions
                         [] OTHER        -> image.uncategorized_regions) }

\* A region whose name is in one of the four lists that put a region into a
\* total.
RegionNameIsListed(region) ==
    \/ InList(region.name, CODE_REGIONS)
    \/ InList(region.name, BLOB_REGIONS)
    \/ InList(region.name, EMPTY_REGIONS)
    \/ InList(region.name, FMAP_DATA_REGIONS)

\* The list the precedence of _classify_region gives a region, as a set: no
\* list for a CBFS, a skipped name and an unlisted read-only region.
RegionListByPrecedence(region) ==
    IF region.attributes = "CBFS" THEN { }
    ELSE IF InList(region.name, SKIP_REGIONS) THEN { }
    ELSE IF InList(region.name, CODE_REGIONS) THEN {"open"}
    ELSE IF InList(region.name, BLOB_REGIONS) THEN {"closed"}
    ELSE IF InList(region.name, EMPTY_REGIONS) THEN {"empty"}
    ELSE IF InList(region.name, FMAP_DATA_REGIONS) THEN {"data"}
    ELSE IF region.attributes = "read-only" THEN { }
    ELSE {"uncategorized"}

SkippedWarning(region) ==
    [ text |-> "WARNING: Skipped %s region, suspected to be a container",
      args |-> << region.name >> ]

\* A region that _classify_region skips with the warning.
RegionIsUnlistedReadOnly(region) ==
    /\ region.attributes = "read-only"
    /\ ~InList(region.name, SKIP_REGIONS)
    /\ ~RegionNameIsListed(region)

LeadingGap(img) ==
    IF img.fmap_regions[1].offset # 0 THEN img.fmap_regions[1].offset ELSE 0

\* C20: the totals of a finished flash image, which are those the final
\* check saw, are the sizes of the regions of the list of each bucket, with
\* the uncategorized regions in closed_code_size, plus the total of the same
\* bucket of every CBFSImage, plus the leading gap in closed_code_size and
\* in no other total.
C20_FlashTotalsFromLists ==
    pc = "done" =>
        /\ image.open_code_size
              = SumField(image.open_code_regions, "size")
                + SumField(image.cbfs_images, "open_code_size")
        /\ image.closed_code_size
              = SumField(image.closed_code_regions, "size")
                + SumField(image.uncategorized_regions, "size")
                + SumField(image.cbfs_images, "closed_code_size")
                + LeadingGap(image)
        /\ image.data_size
              = SumField(image.data_regions, "size")
                + SumField(image.cbfs_images, "data_size")
        /\ image.empty_size
              = SumField(image.empty_regions, "size")
                + SumField(image.cbfs_images, "empty_size")
        /\ \A i \in DOMAIN image.printed :
              image.printed[i].text = MismatchWarning(image).text
                  => image.printed[i].args[1] = FourTotals(image)

\* Two CBFS regions of which the first starts at 512: the totals of both and
\* the gap are in the image.
C20_Witness ==
    /\ pc = "done"
    /\ image.num_cbfses = 2
    /\ LeadingGap(image) = 512
    /\ image.cbfs_images[1].closed_code_size > 0
    /\ image.cbfs_images[2].open_code_size > 0
    /\ image.closed_code_size
          = SumField(image.cbfs_images, "closed_code_size") + 512
    /\ image.open_code_size = SumField(image.cbfs_images, "open_code_size")

\* C21: the ipxe_rom_id of a constructed CBFSImage is the value of the option
\* PXE_ROM_ID when the config has it and '10ec,8168' when it has not, also
\* when no config file was extracted and no option was parsed.
C21_IpxeRomIdDefault ==
    pc = "done" =>
        IF KconfigHas("PXE_ROM_ID")
        THEN cbfs.ipxe_rom_id
                 = CBFSImage_get_kconfig_value(cbfs, "PXE_ROM_ID")
        ELSE cbfs.ipxe_rom_id = "10ec,8168"

\* A CBFSImage built without a config file: no option, and ipxe_rom_id is
\* still None.
C21_Witness ==
    /\ pc = "done"
    /\ cbfs.num_files >= 1
    /\ cbfs.kconfig_opts = << >>
    /\ cbfs.num_opts = 0
    /\ cbfs.ipxe_rom_id = None

SessionBuiltCbfs ==
    /\ session.tools.kind = "CBFSImage"
    /\ session.built # << >>
    /\ cbfs.num_files >= 1

SessionLanOption ==
    \E i \in DOMAIN session.tools.tool.config.lines :
        /\ session.tools.tool.config.lines[i].assigned
        /\ session.tools.tool.config.lines[i].option = "EDK2_LAN_ROM_DRIVER"

\* The cases in which no LAN driver is measured: no config file or no
\* option, no file written by UEFIExtract, lzma ending with an error.
SessionNoLanDriver ==
    \/ ~session.tools.tool.config.found
    \/ ~SessionLanOption
    \/ ~session.tools.tool.lan.extracted
    \/ session.tools.tool.lan.returncode # 0

\* C22: a CBFSImage is built whatever becomes of the LAN driver; its
\* lan_rom_size is taken from open_code_size and added to closed_code_size
\* before the sizes are normalized, and it is 0 when the option is absent,
\* when the driver file is not produced and when the compressor fails.
C22_LanRomSize ==
    SessionBuiltCbfs =>
        /\ cbfs.raised = None
        /\ cbfs.open_code_size
              = SumField(cbfs.open_code_files, "size") - cbfs.lan_rom_size
        /\ cbfs.closed_code_size
              = SumField(cbfs.closed_code_files, "size")
                + SumField(cbfs.uncategorized_files, "size")
                + cbfs.lan_rom_size
        /\ FourTotals(cbfs) = cbfs.cbfs_size
        /\ SessionNoLanDriver => cbfs.lan_rom_size = 0

\* UEFIExtract wrote no driver, the file an earlier run left in /tmp was
\* compressed, and its 40 bytes are in lan_rom_size.
C22_Witness ==
    /\ SessionBuiltCbfs
    /\ SessionLanOption
    /\ ~session.tools.tool.lan.extracted
    /\ LanRomFile(session.tools.region) \in session.tmp
    /\ cbfs.lan_rom_size = 40
    /\ cbfs.open_code_size = SumField(cbfs.open_code_files, "size") - 40

\* The scratch paths of a region.
ScratchPaths(region) ==
    { CbConfigFile(region), PayloadFile(region), LanRomFile(region) }

\* C23: the construction of a CBFSImage leaves none of the scratch paths of
\* its region in /tmp that was not there before it.
C23_ScratchPathsRemoved ==
    [][ session'.tools.kind = "CBFSImage"
            => (session'.tmp \ session.tmp)
                   \cap ScratchPaths(session.tools.region) = { } ]_vars

\* After one construction from an empty /tmp the extracted payload and the
\* extracted driver are still there; the config file is not.
C23_Witness ==
    /\ SessionBuiltCbfs
    /\ cbfs.lan_rom_size = 40
    /\ session.tmp = { PayloadFile(session.tools.region),
                       LanRomFile(session.tools.region) }

\* C24: in every volume, an entry of volume_entries with a base lies within
\* [volume_base, volume_end], is no Region and is not the record of the
\* volume itself; an entry without base is never the first one.
C24_VolumeEntriesInside ==
    \A v \in VolumesOf(uefi.volumes) :
        /\ \A i \in DOMAIN v.volume_entries :
             LET entry == v.volume_entries[i] IN
             entry.base # -1 =>
                 /\ v.volume_base <= entry.base
                 /\ entry.base + entry.size <= v.volume_end
                 /\ entry.type # "Region"
                 /\ ~(/\ entry.type = "Volume"
                      /\ entry.base = v.volume_base
                      /\ entry.size = v.volume_size)
        /\ v.volume_entries # << >> => v.volume_entries[1].base # -1

\* A volume that took a section without base after a file.
C24_Witness ==
    /\ pc = "done"
    /\ \E v \in VolumesOf(uefi.volumes) :
           /\ Len(v.volume_entries) >= 2
           /\ v.volume_entries[1].type = "File"
           /\ v.volume_entries[2].base = -1

\* The list the claim gives a child entry: "empty", "data" or None.
ChildEntryList(entry) ==
    IF entry.base = -1 \/ entry.size = 0 THEN None
    ELSE IF entry.type = "Padding"
    THEN IF entry.subtype \in { "Empty (0xFF)", "Empty (0x00)" } THEN "empty"
         ELSE IF entry.subtype = "Non-empty" THEN "data"
         ELSE None
    ELSE IF entry.type = "Free space" THEN "empty"
    ELSE IF entry.type = "File" /\ entry.subtype = "Pad"
    THEN IF StrIn("Pad-file", entry.name) THEN "empty"
         ELSE IF StrIn("Non-empty pad-file", entry.name) THEN "data"
         ELSE None
    ELSE None

\* C25: in every volume a child entry is in empty_files exactly when it is
\* an empty padding, a free space or a 'Pad-file', in data_files exactly when
\* it is a non-empty padding or a 'Non-empty pad-file', each with a base and
\* a size other than 0; the two lists hold child entries only and share
\* none.
C25_VolumeClassifyEntries ==
    \A v \in VolumesOf(uefi.volumes) :
        /\ \A i \in DOMAIN v.volume_entries :
             LET entry == v.volume_entries[i] IN
             /\ InList(entry, v.empty_files) <=> ChildEntryList(entry) = "empty"
             /\ InList(entry, v.data_files) <=> ChildEntryList(entry) = "data"
        /\ EntriesOf(v.empty_files) \cap EntriesOf(v.data_files) = { }
        /\ EntriesOf(v.empty_files) \cup EntriesOf(v.data_files)
               \subseteq EntriesOf(v.volume_entries)

\* A volume with the six classified kinds and four entries that are in no
\* list.
C25_Witness ==
    /\ pc = "done"
    /\ uefi.num_volumes = 1
    /\ Len(uefi.volumes[1].volume_entries) = Len(PadRows)
    /\ Len(uefi.volumes[1].empty_files) = 4
    /\ Len(uefi.volumes[1].data_files) = 2

\* The top-level volume built from entry i, as a set of at most one.
TopVolumesAt(i) ==
    { k \in DOMAIN uefi.volumes : uefi.volumes[k].volume_idx = i }

\* The interval of an entry lies within [base, base + size).
EntryWithin(entry, base, size) ==
    base <= entry.base /\ entry.base + entry.size <= base + size

\* C26: after construction, entry i is a top-level volume exactly when it is
\* a Volume with a base, lies within the BIOS region and within no top-level
\* volume built from an earlier entry; the top-level volumes are in the
\* order of their entries, each within the BIOS region and within no earlier
\* one.
C26_TopLevelVolumes ==
    pc = "done" =>
        /\ \A i \in 1..uefi.num_entries :
             LET entry == uefi.uefi_entries[i] IN
             TopVolumesAt(i) # { }
                 <=> /\ entry.type = "Volume"
                     /\ entry.base # -1
                     /\ EntryWithin(entry, uefi.bios_region.base,
                                    uefi.bios_region.size)
                     /\ \A k \in DOMAIN uefi.volumes :
                            uefi.volumes[k].volume_idx < i
                                => ~EntryWithin(entry,
                                                uefi.volumes[k].volume_base,
                                                uefi.volumes[k].volume_size)
        /\ \A k \in DOMAIN uefi.volumes :
             /\ uefi.volumes[k].volume_base >= uefi.bios_region.base
             /\ uefi.volumes[k].volume_end
                    <= uefi.bios_region.base + uefi.bios_region.size
             /\ \A j \in 1..(k - 1) :
                    /\ uefi.volumes[j].volume_idx < uefi.volumes[k].volume_idx
                    /\ ~(/\ uefi.volumes[j].volume_base
                                <= uefi.volumes[k].volume_base
                         /\ uefi.volumes[k].volume_end
                                <= uefi.volumes[j].volume_end)

\* A report with the volume of the BIOS region, a volume nested in it and the
\* volume behind the BIOS region: one top-level volume.
C26_Witness ==
    /\ pc = "done"
    /\ uefi.num_volumes = 1
    /\ \E i, j, k \in 1..uefi.num_entries :
           /\ i < j /\ j < k
           /\ TopVolumesAt(i) # { }
           /\ uefi.uefi_entries[j].type = "Volume"
           /\ EntryWithin(uefi.uefi_entries[j], uefi.volumes[1].volume_base,
                          uefi.volumes[1].volume_size)
           /\ uefi.uefi_entries[k].type = "Volume"
           /\ uefi.uefi_entries[k].base
                  >= uefi.bios_region.base + uefi.bios_region.size

\* Two entries with a base lie apart or one within the other.
EntriesNest(a, b) ==
    \/ a.base + a.size <= b.base
    \/ b.base + b.size <= a.base
    \/ EntryWithin(a, b.base, b.size)
    \/ EntryWithin(b, a.base, a.size)

\* The entries with a base form a hierarchy: no two of them overlap in part.
ProperlyNested(entries) ==
    \A i, j \in DOMAIN entries :
        (entries[i].base # -1 /\ entries[j].base # -1)
            => EntriesNest(entries[i], entries[j])

\* C27: for a report whose entries with a base form a hierarchy, no volume,
\* nested ones included, ends with a negative closed-source, data or empty
\* total.
C27_VolumeTotalsNotNegative ==
    (pc = "done" /\ ProperlyNested(uefi.uefi_entries)) =>
        \A v \in VolumesOf(uefi.volumes) :
            /\ v.closed_code_size >= 0
            /\ v.data_size >= 0
            /\ v.empty_size >= 0

\* The outer volume with a nested volume that holds free space, the report a
\* hierarchy.
C27_Witness ==
    /\ pc = "done"
    /\ ProperlyNested(uefi.uefi_entries)
    /\ uefi.num_volumes = 1
    /\ \E k \in DOMAIN uefi.volumes[1].nested_volumes :
           uefi.volumes[1].nested_volumes[k].empty_size > 0

\* Index of the first entry after the volume's own with a base behind
\* volume_end or an interval reaching behind it; one past the last entry when
\* there is none.
ScanEnd(v) ==
    LET ends == { j \in (v.volume_idx + 1)..uefi.num_entries :
                    LET entry == uefi.uefi_entries[j] IN
                    /\ entry.base # -1
                    /\ \/ entry.base > v.volume_end
                       \/ entry.base + entry.size > v.volume_end }
    IN  IF ends = { } THEN uefi.num_entries + 1
        ELSE CHOOSE j \in ends : \A k \in ends : j <= k

\* Entry j has a base, is no region and not the volume itself, and lies
\* within the volume.
ScanInside(v, j) ==
    LET entry == uefi.uefi_entries[j] IN
    /\ entry.base # -1
    /\ entry.type # "Region"
    /\ ~(/\ entry.type = "Volume"
         /\ entry.base = v.volume_base
         /\ entry.size = v.volume_size)
    /\ EntryWithin(entry, v.volume_base, v.volume_size)

ScanNested(v, j) ==
    /\ ScanInside(v, j)
    /\ uefi.uefi_entries[j].type = "Volume"
    /\ uefi.uefi_entries[j].subtype = "FFSv2"

\* The scan keeps entry j: one inside the volume that is no nested volume, or
\* one without base after a kept one.
ScanKeeps(v, j) ==
    \/ ScanInside(v, j) /\ ~ScanNested(v, j)
    \/ /\ uefi.uefi_entries[j].base = -1
       /\ \E k \in (v.volume_idx + 1)..(j - 1) :
              ScanInside(v, k) /\ ~ScanNested(v, k)

\* The indices from..to of the entries, in order.
Indices(from, to) == [ k \in 1..(to - from + 1) |-> from + k - 1 ]

\* C28: the scan of a volume goes once through the entries after its own up
\* to the first with a base behind volume_end or an interval reaching behind
\* it: volume_entries holds each kept entry before that one once, in order,
\* and nested_volumes one volume for each nested volume entry before it, in
\* order, each built at an index greater than volume_idx.
C28_ScanOfVolume ==
    pc = "done" =>
        \A v \in VolumesOf(uefi.volumes) :
            LET scanned == Indices(v.volume_idx + 1, ScanEnd(v) - 1)
                kept    == SelectSeq(scanned, LAMBDA j : ScanKeeps(v, j))
                nested  == SelectSeq(scanned, LAMBDA j : ScanNested(v, j))
            IN  /\ v.volume_entries
                       = [ k \in DOMAIN kept |-> uefi.uefi_entries[kept[k]] ]
                /\ [ k \in DOMAIN v.nested_volumes |->
                         v.nested_volumes[k].volume_idx ] = nested
                /\ \A k \in DOMAIN v.nested_volumes :
                       v.nested_volumes[k].volume_idx > v.volume_idx

\* A nested volume whose scan ends at the volume behind it, and the outer
\* volume whose scan ends at the volume behind it, with an entry without base
\* after that.
C28_Witness ==
    /\ pc = "done"
    /\ uefi.num_volumes = 1
    /\ \E n \in DOMAIN uefi.volumes[1].nested_volumes :
         LET a == uefi.volumes[1]
             b == a.nested_volumes[n]
         IN  /\ ScanEnd(b) < ScanEnd(a)
             /\ ScanEnd(a) < uefi.num_entries
             /\ uefi.uefi_entries[ScanEnd(b)].base = b.volume_end
             /\ uefi.uefi_entries[ScanEnd(a)].base = a.volume_end
             /\ uefi.uefi_entries[uefi.num_entries].base = -1
             /\ Len(a.volume_entries) > Len(b.volume_entries)

\* C29: in the UEFI pipeline the open-source total of the image and of every
\* volume, nested ones included, is 0 at every step, and no volume has an
\* entry in open_code_files.
C29_UefiOpenCodeIsZero ==
    /\ uefi.open_code_size = 0
    /\ \A v \in VolumesOf(uefi.volumes) :
           /\ v.open_code_size = 0
           /\ v.open_code_files = << >>

\* A finished image with closed-source code in a volume and in a volume
\* nested in it.
C29_Witness ==
    /\ pc = "done"
    /\ uefi.closed_code_size > 0
    /\ \E v \in VolumesOf(uefi.volumes) :
           /\ v.closed_code_size > 0
           /\ \E k \in DOMAIN v.nested_volumes :
                  v.nested_volumes[k].closed_code_size > 0

\* The report has no Region line of subtype BIOS.
NoBiosRegion ==
    \A i \in 1..uefi.num_entries :
        ~(/\ uefi.uefi_entries[i].type = "Region"
          /\ uefi.uefi_entries[i].subtype = "BIOS")

\* C30: the construction of a UEFIImage from a report without a Region line
\* of subtype BIOS ends without an exception, with totals and without a
\* top-level volume.
C30_NoBiosRegionCompletes ==
    (pc # "parse_uefi_image" /\ NoBiosRegion) =>
        /\ pc = "done"
        /\ uefi.raised = None
        /\ uefi.num_volumes = 0

\* A report of volume, file and padding lines only, whose construction ends
\* with a KeyError.
C30_Witness ==
    /\ pc = "raised"
    /\ uefi.raised = "KeyError"
    /\ uefi.num_entries >= 2
    /\ uefi.bios_region = << >>
    /\ \A i \in 1..uefi.num_entries :
           uefi.uefi_entries[i].type \in { "Volume", "File", "Padding" }

=============================================================================
